---------------------------- MODULE Spec2Model ----------------------------
(***************************************************************************)
(* Transportation LP solver: TLPSolver.solve (tlp_solver.py), VogelsMethod *)
(* (vogels_method.py) and PotentialMethod (potential_method.py).           *)
(*                                                                         *)
(* Numbers.  The code computes in floating point.  The model computes in   *)
(* exact arithmetic.  The amounts that arise (supply, demand, allocation,   *)
(* theta, total cost) have the form w + e * 1e-10 with w a whole number    *)
(* and e a small whole number of EPSILON-sized steps; such an amount is    *)
(* held as the integer w * One + e, so EPSILON = 1e-10 is held as 1, and   *)
(* 1e-6 as 10000.  One stands for 1e10 and only has to exceed twice the    *)
(* largest e that arises.  Costs and potentials are whole numbers and are  *)
(* held as they are; a reduced cost is converted (times One) where the     *)
(* code compares it with EPSILON.  Rounding error of the floating point    *)
(* operations is not modelled.                                             *)
(*                                                                         *)
(* Indices are 1-based here and 0-based in the code: cell <<i, j>> of the  *)
(* model is cell (i-1, j-1) of the code.                                   *)
(*                                                                         *)
(* Python lists that a caller can see are kept in `heap`, addressed by     *)
(* name, so that a missing copy shows as a write to the caller's object.   *)
(***************************************************************************)
EXTENDS Integers, Sequences, FiniteSets, TLC

\* ---------------------------------------------------------------- bounds
\* Largest number of suppliers / consumers of a generated problem.
MaxSuppliers == 2
MaxConsumers == 2
\* Largest number of consumers of a generated problem that is well-formed
\* and balanced.
MaxBalancedConsumers == 3
\* Supplies and demands of generated problems are 0..MaxAmount (times One).
MaxAmount == 2
\* Costs of generated problems are 0..MaxCost.
MaxCost == 2
\* Largest max_iterations the optimizer is constructed with.
MaxIterations == 4
\* The integer that holds the amount 1.0.
One == 100000
\* Costs of the problems find_initial_bfs is called with on its own are
\* -MaxNegativeCost..MaxCost.
MaxNegativeCost == 1

\* ------------------------------------------------------ program constants
\* VogelsMethod.EPSILON and PotentialMethod.EPSILON (both 1e-10).
EPSILON == 1
\* The 1e-6 of TLPProblem.is_balanced, in units of EPSILON.
BalanceTolerance == 10000

\* ---------------------------------------------------------------- helpers
RECURSIVE SumSeq(_)
\* Python's sum(list).
SumSeq(s) == IF s = << >> THEN 0 ELSE s[1] + SumSeq(Tail(s))

MinOf(S) == CHOOSE x \in S : \A y \in S : x <= y
MaxOf(S) == CHOOSE x \in S : \A y \in S : x >= y
Abs(x) == IF x < 0 THEN -x ELSE x

\* Python's None for an optional field, and a present value.
None == << >>
Some(x) == << x >>

\* np.zeros((m, n)) as a list of rows.
Zeros(m, n) == [i \in 1..m |-> [j \in 1..n |-> 0]]

\* np.array(list_of_rows).shape: (0,) for [], else (rows, columns).  The
\* generated problems are never ragged.
Shape(rows) == IF rows = << >> THEN << 0 >> ELSE << Len(rows), Len(rows[1]) >>

\* ------------------------------------------------- VogelsMethod penalties
\* Faulty variant of Penalty: the largest cost minus the smallest.
PenaltySpread(cs) ==
    LET D == DOMAIN cs
        s0 == MinOf({cs[k] : k \in D})
    IN  IF Cardinality(D) >= 2 THEN MaxOf({cs[k] : k \in D}) - s0 ELSE s0

\* Difference of the two smallest values of the costs listed in cs (a
\* function from a non-empty index set to costs); the single value when the
\* set has one element.
Penalty(cs) ==
    LET D == DOMAIN cs
        s0 == MinOf({cs[k] : k \in D})
        at0 == {k \in D : cs[k] = s0}
        s1 == IF Cardinality(at0) >= 2 THEN s0
              ELSE MinOf({cs[k] : k \in D \ at0})
    IN  IF Cardinality(D) >= 2 THEN s1 - s0 ELSE s0

\* _calculate_row_penalties: a dict row -> penalty, with no entry for a
\* row when no column is active.
calculate_row_penalties(costs, active_rows, active_cols) ==
    [i \in {r \in active_rows : active_cols # {}} |->
        Penalty([j \in active_cols |-> costs[i][j]])]

\* _calculate_col_penalties: the same over columns.
calculate_col_penalties(costs, active_rows, active_cols) ==
    [j \in {c \in active_cols : active_rows # {}} |->
        Penalty([i \in active_rows |-> costs[i][j]])]

\* max(d.keys(), key=d.get) and min(S, key=f): the first extremal key in
\* iteration order, which for a set or dict of small ints is ascending.
ArgMaxFirst(f) ==
    MinOf({k \in DOMAIN f : \A k2 \in DOMAIN f : f[k] >= f[k2]})
ArgMinFirst(f) ==
    MinOf({k \in DOMAIN f : \A k2 \in DOMAIN f : f[k] <= f[k2]})


\* ------------------------------------------------------------------ state
VARIABLES
    heap,               \* address -> contents of a Python list object
    entry,              \* the public entry point called: "solve" or
                        \* "solve_from_bfs"
    max_iterations,     \* PotentialMethod.max_iterations
    pc,                 \* position of the call
    problem,            \* the local name `problem`: the addresses of its
                        \* supply, demand and costs lists
    vogel,              \* locals of VogelsMethod.find_initial_bfs
    initial_solution,   \* the BFSolution handed to solve_from_bfs (or None)
    modi,               \* locals of PotentialMethod.solve_from_bfs
    result,             \* the TLPResult returned (or None)
    given,              \* ghost: the caller's arguments as they were when
                        \* the call started
    parked              \* the frame of a second call on the same solver
                        \* that is not running at the moment (or NoFrame)

vars == << heap, entry, max_iterations, pc, problem, vogel,
           initial_solution, modi, result, given, parked >>

\* The addresses of the model's list objects.
Addresses ==
    { "problem.supply", "problem.demand", "problem.costs",
      "balanced.supply", "balanced.demand", "balanced.costs",
      "vogel.supply", "vogel.demand",
      "bfs.allocation", "bfs.basis", "modi.allocation" }

\* The caller's TLPProblem object.
CallerProblem ==
    [supply |-> "problem.supply", demand |-> "problem.demand",
     costs |-> "problem.costs"]

\* Faulty variant of ListCopy: no copy is made, the new name is bound to the
\* list itself.
ListAlias(src, dst) == src

\* list.copy(): the address of the new list (dst), a different object from
\* the list copied (src).
ListCopy(src, dst) == dst

\* The heap after `ref` has been made to hold the contents of `src`.
Store(h, ref, contents) == [h EXCEPT ![ref] = contents]

\* ------------------------------------------------------------- TLPProblem
num_suppliers(h, p) == Len(h[p.supply])
num_consumers(h, p) == Len(h[p.demand])
total_supply(h, p) == SumSeq(h[p.supply])
total_demand(h, p) == SumSeq(h[p.demand])

\* abs(total_supply - total_demand) < 1e-6.
is_balanced(h, p) ==
    Abs(total_supply(h, p) - total_demand(h, p)) < BalanceTolerance

\* --------------------------------------------------------------- TLPResult
SolutionStatus ==
    { "optimal", "infeasible", "unbounded", "error", "unknown", "pending" }

TLPResult(status, optimal_value, solution, error_message) ==
    [status |-> status, optimal_value |-> optimal_value,
     solution |-> solution, error_message |-> error_message]

\* The member SolutionStatus.OPTIMAL of the Enum (constants.py), and bool()
\* of a member of an Enum: Enum defines no __bool__ and no __len__, so every
\* member is true.
SolutionStatusOPTIMAL == [enum |-> "SolutionStatus", name |-> "OPTIMAL"]
EnumBool(member) == TRUE

\* TLPResult.is_optimal (lines 46-49): `return SolutionStatus.OPTIMAL`, the
\* member itself and not a comparison with self.status.
is_optimal(r) == SolutionStatusOPTIMAL

\* Faulty variant of SolveExcept: the message is dropped.
SolveExceptNoMessage(e) == TLPResult("error", None, None, None)

\* The except clause of TLPSolver.solve.
SolveExcept(e) == TLPResult("error", None, None, Some("Solver error: " \o e))

\* The except clause of PotentialMethod.solve_from_bfs.
ModiExcept(e) ==
    TLPResult("error", None, None, Some("Error in MODI method: " \o e))

\* Faulty variant of RaisedInSolve: no except clause, e reaches the caller.
Propagates(e) == [returned |-> None, raised |-> Some(e)]

\* What the caller of the entry point receives when an exception e is
\* raised in find_initial_bfs or _balance_problem (inside solve's try).
RaisedInSolve(e) == [returned |-> Some(SolveExcept(e)), raised |-> None]

\* What the caller receives when e is raised in the body of
\* solve_from_bfs (inside its own try).
RaisedInModi(e) == [returned |-> Some(ModiExcept(e)), raised |-> None]

\* A normal return of r.
Returned(r) == [returned |-> Some(r), raised |-> None]

\* Faulty variant of balance_problem: the dummy is always a consumer, also
\* when demand exceeds supply.
balance_always_consumer(h, p) ==
    [supply |-> h[p.supply],
     demand |-> Append(h[p.demand], total_supply(h, p) - total_demand(h, p)),
     costs |-> [i \in 1..Len(h[p.costs]) |-> Append(h[p.costs][i], 0)]]

\* ------------------------------------------------- TLPSolver._balance_problem
\* The lists of the balanced TLPProblem built from problem p.
balance_problem(h, p) ==
    LET supply == h[p.supply]
        demand == h[p.demand]
        costs == h[p.costs]
    IN  IF total_supply(h, p) > total_demand(h, p)
        THEN \* dummy consumer
             LET deficit == total_supply(h, p) - total_demand(h, p)
             IN  [supply |-> supply,
                  demand |-> Append(demand, deficit),
                  costs |-> [i \in 1..Len(costs) |-> Append(costs[i], 0)]]
        ELSE \* dummy supplier
             LET deficit == total_demand(h, p) - total_supply(h, p)
             IN  [supply |-> Append(supply, deficit),
                  demand |-> demand,
                  costs |-> Append(costs,
                                   [j \in 1..num_consumers(h, p) |-> 0])]

\* The TLPProblem object that _balance_problem returns: new lists.
BalancedProblem ==
    [supply |-> ListCopy("problem.supply", "balanced.supply"),
     demand |-> ListCopy("problem.demand", "balanced.demand"),
     costs |-> ListCopy("problem.costs", "balanced.costs")]


\* ------------------------------------------ VogelsMethod.find_initial_bfs
\* The locals of find_initial_bfs after lines 17-26, for a cost array of
\* shape (m, n): supply and demand are the addresses of the working lists.
VogelLocals(supply, demand, costs, m, n) ==
    [supply |-> supply, demand |-> demand, costs |-> costs, m |-> m, n |-> n,
     allocation |-> Zeros(m, n), basis |-> << >>,
     active_rows |-> 1..m, active_cols |-> 1..n]

\* max(penalties.values()) if penalties else -1.
MaxPenalty(penalties) ==
    IF DOMAIN penalties = {} THEN -1
    ELSE MaxOf({penalties[k] : k \in DOMAIN penalties})

\* Lines 28-38: the while condition and the break.
VogelContinues(v) ==
    /\ v.active_rows # {}
    /\ v.active_cols # {}
    /\ LET row_penalties ==
               calculate_row_penalties(v.costs, v.active_rows, v.active_cols)
           col_penalties ==
               calculate_col_penalties(v.costs, v.active_rows, v.active_cols)
       IN  ~(MaxPenalty(row_penalties) = -1 /\ MaxPenalty(col_penalties) = -1)

\* Faulty variant of VogelCell: on equal maximum penalties the column is
\* preferred.
VogelCellColumnFirst(v) ==
    LET row_penalties ==
            calculate_row_penalties(v.costs, v.active_rows, v.active_cols)
        col_penalties ==
            calculate_col_penalties(v.costs, v.active_rows, v.active_cols)
    IN  IF MaxPenalty(row_penalties) > MaxPenalty(col_penalties)
        THEN LET i == ArgMaxFirst(row_penalties)
                 j == ArgMinFirst([c \in v.active_cols |-> v.costs[i][c]])
             IN  << i, j >>
        ELSE LET j == ArgMaxFirst(col_penalties)
                 i == ArgMinFirst([r \in v.active_rows |-> v.costs[r][j]])
             IN  << i, j >>

\* Lines 40-46: the cell selected in this iteration.
VogelCell(v) ==
    LET row_penalties ==
            calculate_row_penalties(v.costs, v.active_rows, v.active_cols)
        col_penalties ==
            calculate_col_penalties(v.costs, v.active_rows, v.active_cols)
    IN  IF MaxPenalty(row_penalties) >= MaxPenalty(col_penalties)
        THEN LET i == ArgMaxFirst(row_penalties)
                 j == ArgMinFirst([c \in v.active_cols |-> v.costs[i][c]])
             IN  << i, j >>
        ELSE LET j == ArgMaxFirst(col_penalties)
                 i == ArgMinFirst([r \in v.active_rows |-> v.costs[r][j]])
             IN  << i, j >>

\* supply[i] or demand[j] raises IndexError when the list is shorter than
\* the cost array.
VogelIndexError(h, v) ==
    LET c == VogelCell(v)
    IN  c[1] > Len(h[v.supply]) \/ c[2] > Len(h[v.demand])

\* Lines 48-61: the locals after allocating to the selected cell; the
\* remaining supply and demand are written to the working lists (VogelHeap).
VogelAllocate(h, v) ==
    LET c == VogelCell(v)
        i == c[1]
        j == c[2]
        amount == IF h[v.supply][i] <= h[v.demand][j]
                  THEN h[v.supply][i] ELSE h[v.demand][j]
        \* supply[i] and demand[j] after the subtraction; one cell when the
        \* two names are bound to the same list
        h1 == Store(h, v.supply,
                    [h[v.supply] EXCEPT ![i] = h[v.supply][i] - amount])
        h2 == Store(h1, v.demand,
                    [h1[v.demand] EXCEPT ![j] = h1[v.demand][j] - amount])
    IN  [heap |-> h2,
         locals |->
            [v EXCEPT
                !.allocation[i][j] = amount,
                !.basis = Append(v.basis, c),
                !.active_rows =
                    IF h2[v.supply][i] < EPSILON THEN v.active_rows \ {i}
                    ELSE v.active_rows,
                !.active_cols =
                    IF h2[v.demand][j] < EPSILON THEN v.active_cols \ {j}
                    ELSE v.active_cols]]

RECURSIVE BasisCost(_, _, _)
\* sum(allocation[i, j] * costs[i][j] for i, j in basis).
BasisCost(allocation, costs, basis) ==
    IF basis = << >> THEN 0
    ELSE allocation[basis[1][1]][basis[1][2]] * costs[basis[1][1]][basis[1][2]]
         + BasisCost(allocation, costs, Tail(basis))

\* BFSolution(allocation, basis, cost): the addresses of its two lists and
\* its cost.
BFSolution(cost) ==
    [allocation |-> "bfs.allocation", basis |-> "bfs.basis", cost |-> cost]


\* --------------------------------- PotentialMethod._calculate_potentials
\* np.nan, and a float that is not nan.
nan == << >>
Num(x) == << x >>
isnan(x) == x = nan

\* The order in which `for i, j in basis` enumerates the set basis.  CPython
\* enumerates a set in hash-table order; the model enumerates row by row.
\* The order matters only for a basis that holds a cycle: the potentials of
\* an acyclic basis and the cycle it closes with the entering cell are the
\* same in every order.
RowMajorBefore(c, d) == c[1] < d[1] \/ (c[1] = d[1] /\ c[2] <= d[2])
FirstCell(S) == CHOOSE c \in S : \A d \in S : RowMajorBefore(c, d)
RECURSIVE Enumerate(_)
Enumerate(basis) ==
    IF basis = {} THEN << >>
    ELSE << FirstCell(basis) >> \o Enumerate(basis \ {FirstCell(basis)})

RECURSIVE ScanBasis(_, _, _)
\* Lines 97-103: one pass of `for i, j in basis` over the cells cells,
\* from the potentials and the flag in p.
ScanBasis(costs, cells, p) ==
    IF cells = << >> THEN p
    ELSE LET i == cells[1][1]
             j == cells[1][2]
             q == IF isnan(p.u[i]) /\ ~isnan(p.v[j])
                  THEN [p EXCEPT !.u[i] = Num(costs[i][j] - p.v[j][1]),
                                 !.updated = TRUE]
                  ELSE IF isnan(p.v[j]) /\ ~isnan(p.u[i])
                  THEN [p EXCEPT !.v[j] = Num(costs[i][j] - p.u[i][1]),
                                 !.updated = TRUE]
                  ELSE p
         \* the rest of the pass, from the potentials q as they are now
         IN  CHOOSE r \in {ScanBasis(costs, Tail(cells), s) : s \in {q}} : TRUE

RECURSIVE RelaxPasses(_, _, _, _, _)
\* Lines 93-103: while updated and iter_count < max_iter.
RelaxPasses(costs, cells, p, iter_count, max_iter) ==
    IF p.updated /\ iter_count < max_iter
    THEN \* the next test of the while condition, on the potentials s that
         \* this pass leaves
         CHOOSE r \in {RelaxPasses(costs, cells, s, iter_count + 1, max_iter) :
                         s \in {ScanBasis(costs, cells,
                                          [p EXCEPT !.updated = FALSE])}} : TRUE
    ELSE p

\* Faulty variant of calculate_potentials: a single relaxation pass.
calculate_potentials_one_pass(costs, cells, m, n) ==
    LET p0 == [u |-> [i \in 1..m |-> IF i = 1 THEN Num(0) ELSE nan],
               v |-> [j \in 1..n |-> nan],
               updated |-> TRUE]
        p == RelaxPasses(costs, cells, p0, 0, 1)
    IN  [u |-> p.u, v |-> p.v]

\* _calculate_potentials(costs, basis, m, n) for m >= 1, the basis
\* enumerated in the order of the sequence cells: [u, v].
calculate_potentials(costs, cells, m, n) ==
    LET p0 == [u |-> [i \in 1..m |-> IF i = 1 THEN Num(0) ELSE nan],
               v |-> [j \in 1..n |-> nan],
               updated |-> TRUE]
        p == RelaxPasses(costs, cells, p0, 0, m + n)
    IN  [u |-> p.u, v |-> p.v]

\* ------------------------------------- reduced costs and the entering cell
\* np.inf, and the kinds of a float of deltas_masked.
inf == [kind |-> "inf", val |-> 0]
NaN == [kind |-> "nan", val |-> 0]
Finite(x) == [kind |-> "num", val |-> x]

\* Lines 32-38: deltas_masked[i][j].
deltas_masked(costs, pot, basis, i, j) ==
    IF << i, j >> \in basis THEN inf
    ELSE IF isnan(pot.u[i]) \/ isnan(pot.v[j]) THEN NaN
    ELSE Finite(costs[i][j] - pot.u[i][1] - pot.v[j][1])

\* The cells of an m x n array; FirstCell is the first in row-major
\* (flattened) order.
Cells(m, n) == (1..m) \X (1..n)

\* np.min(deltas_masked) of a non-empty array: nan when an entry is nan.
np_min(costs, pot, basis, m, n) ==
    LET D == [c \in Cells(m, n) |-> deltas_masked(costs, pot, basis, c[1], c[2])]
        nums == {D[c].val : c \in {d \in Cells(m, n) : D[d].kind = "num"}}
    IN  IF \E c \in Cells(m, n) : D[c].kind = "nan" THEN NaN
        ELSE IF nums = {} THEN inf
        ELSE Finite(MinOf(nums))

\* Faulty variant of OptimalCondition: a reduced cost of -1 passes the test.
OptimalConditionLoose(min_delta) ==
    CASE min_delta.kind = "nan" -> FALSE
      [] min_delta.kind = "inf" -> TRUE
      [] OTHER -> min_delta.val * One >= -One

\* min_delta >= -self.EPSILON: false for nan, true for inf.
OptimalCondition(min_delta) ==
    CASE min_delta.kind = "nan" -> FALSE
      [] min_delta.kind = "inf" -> TRUE
      [] OTHER -> min_delta.val * One >= -EPSILON

\* tuple(np.unravel_index(np.argmin(deltas_masked), shape)): the first nan
\* in row-major order when there is one, else the first minimum.
entering_cell(costs, pot, basis, m, n) ==
    LET D == [c \in Cells(m, n) |-> deltas_masked(costs, pot, basis, c[1], c[2])]
        nans == {c \in Cells(m, n) : D[c].kind = "nan"}
        numc == {c \in Cells(m, n) : D[c].kind = "num"}
    IN  IF nans # {} THEN FirstCell(nans)
        ELSE IF numc = {} THEN << 1, 1 >>
        ELSE FirstCell({c \in numc : \A d \in numc : D[c].val <= D[d].val})


\* ------------------------------------------ PotentialMethod._find_cycle
\* Lines 165-175: the adjacency lists, the basis enumerated in the order
\* of cells and the entering cell appended last.
rows_cells(cells, m) ==
    [i \in 1..m |-> SelectSeq(cells, LAMBDA c : c[1] = i)]
cols_cells(cells, n) ==
    [j \in 1..n |-> SelectSeq(cells, LAMBDA c : c[2] = j)]

\* The cells searched: basis cells in enumeration order, then the entering
\* cell (lines 172-173).
CycleCells(cells, entering) == Append(cells, entering)

RECURSIVE dfs(_, _, _, _, _, _, _)
RECURSIVE dfs_next(_, _, _, _, _, _, _, _)

\* Lines 124-163: dfs(curr, target, path, visited, is_row); adj holds
\* rows_cells and cols_cells (as cells), bound is 2 * (m + n).  None when
\* no cycle is found.
dfs(adj, bound, curr, target, path, visited, is_row) ==
    IF /\ Len(path) >= 4
       /\ IF is_row
          THEN curr[1] = target[1]
               /\ \E k \in 1..Len(adj.rows[curr[1]]) :
                      adj.rows[curr[1]][k][2] = target[2]
          ELSE curr[2] = target[2]
               /\ \E k \in 1..Len(adj.cols[curr[2]]) :
                      adj.cols[curr[2]][k][1] = target[1]
    THEN path
    ELSE IF curr \in visited THEN None
    ELSE IF Len(path) > bound THEN None
    ELSE dfs_next(adj, bound, curr, target, path, visited \cup {curr},
                  is_row, 1)

\* Lines 144-161: the loop over the neighbours of curr, from the k-th on.
dfs_next(adj, bound, curr, target, path, visited, is_row, k) ==
    LET nbrs == IF is_row THEN adj.rows[curr[1]] ELSE adj.cols[curr[2]]
    IN  IF k > Len(nbrs) THEN None
        ELSE IF nbrs[k] = curr
        THEN dfs_next(adj, bound, curr, target, path, visited, is_row, k + 1)
        ELSE LET res == dfs(adj, bound, nbrs[k], target,
                            Append(path, nbrs[k]), visited, ~is_row)
             IN  IF res # None THEN res
                 ELSE dfs_next(adj, bound, curr, target, path, visited,
                               is_row, k + 1)

\* _find_cycle(entering_cell, basis, m, n), the basis enumerated in the
\* order of cells: the closed cycle, or None.
find_cycle(entering, cells, m, n) ==
    LET all == CycleCells(cells, entering)
        adj == [rows |-> rows_cells(all, m), cols |-> cols_cells(all, n)]
        cycle == dfs(adj, 2 * (m + n), entering, entering, << entering >>,
                     {}, TRUE)
    IN  IF cycle # None THEN Append(cycle, entering) ELSE None

RECURSIVE dfs_calls(_, _, _, _, _, _, _)
RECURSIVE dfs_next_calls(_, _, _, _, _, _, _, _)

\* The calls of dfs made by the search that starts with the call
\* dfs(curr, target, path, visited, is_row) (lines 124-163), that call
\* included: for each call its path and whether it goes on to the loop over
\* the neighbours of curr (expands) or returns before it.
dfs_calls(adj, bound, curr, target, path, visited, is_row) ==
    IF dfs(adj, bound, curr, target, path, visited, is_row) = path
       \/ curr \in visited
       \/ Len(path) > bound
    THEN {[path |-> path, expands |-> FALSE]}
    ELSE {[path |-> path, expands |-> TRUE]}
         \cup dfs_next_calls(adj, bound, curr, target, path,
                             visited \cup {curr}, is_row, 1)

\* Lines 144-161: the calls made by the loop over the neighbours of curr,
\* from the k-th on; the loop ends with the first call that returns a path.
dfs_next_calls(adj, bound, curr, target, path, visited, is_row, k) ==
    LET nbrs == IF is_row THEN adj.rows[curr[1]] ELSE adj.cols[curr[2]]
    IN  IF k > Len(nbrs) THEN {}
        ELSE IF nbrs[k] = curr
        THEN dfs_next_calls(adj, bound, curr, target, path, visited, is_row,
                            k + 1)
        ELSE LET made == dfs_calls(adj, bound, nbrs[k], target,
                                   Append(path, nbrs[k]), visited, ~is_row)
                 res == dfs(adj, bound, nbrs[k], target,
                            Append(path, nbrs[k]), visited, ~is_row)
             IN  IF res # None THEN made
                 ELSE made \cup dfs_next_calls(adj, bound, curr, target, path,
                                               visited, is_row, k + 1)

\* The calls of dfs made by _find_cycle(entering, basis, m, n) (line 178).
find_cycle_calls(entering, cells, m, n) ==
    LET all == CycleCells(cells, entering)
        adj == [rows |-> rows_cells(all, m), cols |-> cols_cells(all, n)]
    IN  dfs_calls(adj, 2 * (m + n), entering, entering, << entering >>,
                  {}, TRUE)

\* --------------------------------------- PotentialMethod._update_solution
\* cycle[1::2]: the '-' cells.
minus_positions(cycle) ==
    [k \in 1..(Len(cycle) \div 2) |-> cycle[2 * k]]

\* Faulty variant of Theta: no fallback when the minimum is below EPSILON.
ThetaNoFallback(allocation, cycle) ==
    LET minus == minus_positions(cycle)
    IN  MinOf({allocation[minus[k][1]][minus[k][2]] : k \in 1..Len(minus)})

\* Lines 199-207: theta.
Theta(allocation, cycle) ==
    LET minus == minus_positions(cycle)
        vals == {allocation[minus[k][1]][minus[k][2]] : k \in 1..Len(minus)}
        theta == MinOf(vals)
        positive_values == {x \in vals : x > EPSILON}
    IN  IF theta < EPSILON
        THEN IF positive_values # {} THEN MinOf(positive_values) ELSE EPSILON
        ELSE theta

RECURSIVE ApplyTheta(_, _, _, _)
\* Lines 209-213: the loop over enumerate(cycle), from index idx (0-based).
ApplyTheta(allocation, cycle, theta, idx) ==
    IF idx >= Len(cycle) THEN allocation
    ELSE LET i == cycle[idx + 1][1]
             j == cycle[idx + 1][2]
             a == IF idx % 2 = 0
                  THEN [allocation EXCEPT ![i][j] = @ + theta]
                  ELSE [allocation EXCEPT ![i][j] = @ - theta]
         IN  ApplyTheta(a, cycle, theta, idx + 1)

\* Faulty variant of leaving_cell: the last '-' cell below EPSILON leaves.
leaving_cell_last(allocation, minus) ==
    LET hits == {k \in 1..Len(minus) :
                    allocation[minus[k][1]][minus[k][2]] < EPSILON}
    IN  IF hits = {} THEN None ELSE Some(minus[MaxOf(hits)])

\* Lines 215-221: the first '-' cell whose allocation is below EPSILON, or
\* None.
leaving_cell(allocation, minus) ==
    LET hits == {k \in 1..Len(minus) :
                    allocation[minus[k][1]][minus[k][2]] < EPSILON}
    IN  IF hits = {} THEN None ELSE Some(minus[MinOf(hits)])

\* Faulty variant of update_solution: the leaving cell is removed from the
\* basis and its allocation is left as the subtraction made it.
update_solution_no_reset(allocation, basis, closed_cycle) ==
    LET cycle == IF Len(closed_cycle) > 1
                    /\ closed_cycle[1] = closed_cycle[Len(closed_cycle)]
                 THEN SubSeq(closed_cycle, 1, Len(closed_cycle) - 1)
                 ELSE closed_cycle
        minus == minus_positions(cycle)
        moved == ApplyTheta(allocation, cycle, Theta(allocation, cycle), 0)
        leaving == leaving_cell(moved, minus)
    IN  [allocation |-> moved,
         basis |-> (IF leaving = None THEN basis ELSE basis \ {leaving[1]})
                   \cup {cycle[1]}]

\* Faulty variant of update_solution: the entering cell is added and no cell
\* is removed from the basis.
update_solution_none_leaves(allocation, basis, closed_cycle) ==
    LET cycle == IF Len(closed_cycle) > 1
                    /\ closed_cycle[1] = closed_cycle[Len(closed_cycle)]
                 THEN SubSeq(closed_cycle, 1, Len(closed_cycle) - 1)
                 ELSE closed_cycle
        minus == minus_positions(cycle)
        moved == ApplyTheta(allocation, cycle, Theta(allocation, cycle), 0)
        leaving == leaving_cell(moved, minus)
    IN  [allocation |-> IF leaving = None THEN moved
                        ELSE [moved EXCEPT ![leaving[1][1]][leaving[1][2]] = 0],
         basis |-> basis \cup {cycle[1]}]

\* _update_solution(allocation, basis, cycle): the updated allocation and
\* the new basis.
update_solution(allocation, basis, closed_cycle) ==
    LET cycle == IF Len(closed_cycle) > 1
                    /\ closed_cycle[1] = closed_cycle[Len(closed_cycle)]
                 THEN SubSeq(closed_cycle, 1, Len(closed_cycle) - 1)
                 ELSE closed_cycle
        minus == minus_positions(cycle)
        theta == Theta(allocation, cycle)
        moved == ApplyTheta(allocation, cycle, theta, 0)
        leaving == leaving_cell(moved, minus)
        final == IF leaving = None THEN moved
                 ELSE [moved EXCEPT ![leaving[1][1]][leaving[1][2]] = 0]
        new_basis == (IF leaving = None THEN basis ELSE basis \ {leaving[1]})
                     \cup {cycle[1]}
    IN  [allocation |-> final, basis |-> new_basis]

RECURSIVE SumCells(_, _, _)
\* float(np.sum(allocation * costs)) over the set of cells S.
SumCells(allocation, costs, S) ==
    IF S = {} THEN 0
    ELSE LET c == CHOOSE x \in S : TRUE
         IN  allocation[c[1]][c[2]] * costs[c[1]][c[2]]
             + SumCells(allocation, costs, S \ {c})


\* ----------------------------------------------------------------- inputs
Amounts == {a * One : a \in 0..MaxAmount}
CostValues == 0..MaxCost

\* Lists of supplies or demands, the empty list included.
AmountLists(maxlen) == UNION {[1..k -> Amounts] : k \in 0..maxlen}

\* Cost matrices as lists of rows of one length: [] and rows of length 0
\* included.
CostLists ==
    UNION {[1..r -> [1..c -> CostValues]] :
              r \in 0..MaxSuppliers, c \in 0..MaxConsumers}

\* The problems solve is called with: every combination of the lists
\* above, so also problems whose cost matrix does not fit supply and demand.
GeneratedProblems ==
    [supply : AmountLists(MaxSuppliers), demand : AmountLists(MaxConsumers),
     costs : CostLists]

\* A list of whole amounts in the model's representation.
Whole(list) == [k \in 1..Len(list) |-> list[k] * One]
WholeRows(rows) == [k \in 1..Len(rows) |-> Whole(rows[k])]

\* The problems of the test suites (test_vogel.py, test_potential.py).
simple_balanced_problem ==
    [supply |-> Whole(<< 10, 20 >>), demand |-> Whole(<< 15, 5, 10 >>),
     costs |-> << << 2, 3, 1 >>, << 4, 1, 5 >> >>]
standard_balanced_problem ==
    [supply |-> Whole(<< 30, 50, 20 >>), demand |-> Whole(<< 20, 40, 30, 10 >>),
     costs |-> << << 10, 5, 8, 9 >>, << 7, 9, 10, 4 >>, << 3, 6, 5, 2 >> >>]
degenerate_problem ==
    [supply |-> Whole(<< 10, 10 >>), demand |-> Whole(<< 10, 10 >>),
     costs |-> << << 1, 2 >>, << 3, 4 >> >>]
test_simple_optimal_solution ==
    [supply |-> Whole(<< 20, 30 >>), demand |-> Whole(<< 25, 25 >>),
     costs |-> << << 2, 3 >>, << 4, 1 >> >>,
     allocation |-> WholeRows(<< << 20, 0 >>, << 5, 25 >> >>),
     basis |-> << << 1, 1 >>, << 2, 1 >>, << 2, 2 >> >>]
test_requires_optimization ==
    [supply |-> Whole(<< 30, 40, 50 >>), demand |-> Whole(<< 35, 28, 57 >>),
     costs |-> << << 8, 6, 10 >>, << 9, 12, 13 >>, << 14, 9, 16 >> >>,
     allocation |->
        WholeRows(<< << 30, 0, 0 >>, << 5, 28, 7 >>, << 0, 0, 50 >> >>),
     basis |-> << << 1, 1 >>, << 2, 1 >>, << 2, 2 >>, << 2, 3 >>, << 3, 3 >> >>]
test_degenerate_case ==
    [supply |-> Whole(<< 10, 10 >>), demand |-> Whole(<< 10, 10 >>),
     costs |-> << << 1, 2 >>, << 3, 4 >> >>,
     allocation |-> WholeRows(<< << 10, 0 >>, << 0, 10 >> >>),
     basis |-> << << 1, 1 >>, << 2, 2 >>, << 1, 2 >> >>]
test_max_iterations_exceeded ==
    [supply |-> Whole(<< 100, 100 >>), demand |-> Whole(<< 100, 100 >>),
     costs |-> << << 5, 10 >>, << 8, 6 >> >>,
     allocation |-> WholeRows(<< << 0, 100 >>, << 100, 0 >> >>),
     basis |-> << << 1, 2 >>, << 2, 1 >>, << 2, 2 >> >>]
test_invalid_basis ==
    [supply |-> Whole(<< 20, 30 >>), demand |-> Whole(<< 25, 25 >>),
     costs |-> << << 2, 3 >>, << 4, 1 >> >>,
     allocation |-> WholeRows(<< << 20, 0 >>, << 5, 25 >> >>),
     basis |-> << << 1, 1 >>, << 2, 2 >> >>]
test_zero_costs ==
    [supply |-> Whole(<< 15, 25 >>), demand |-> Whole(<< 20, 20 >>),
     costs |-> << << 0, 5 >>, << 3, 0 >> >>,
     allocation |-> WholeRows(<< << 15, 0 >>, << 5, 20 >> >>),
     basis |-> << << 1, 1 >>, << 2, 1 >>, << 2, 2 >> >>]
test_solution_maintains_constraints ==
    [supply |-> Whole(<< 100, 150, 200 >>), demand |-> Whole(<< 120, 180, 150 >>),
     costs |-> << << 5, 8, 7 >>, << 6, 9, 4 >>, << 8, 5, 6 >> >>,
     allocation |->
        WholeRows(<< << 100, 0, 0 >>, << 20, 130, 0 >>, << 0, 50, 150 >> >>),
     basis |-> << << 1, 1 >>, << 2, 1 >>, << 2, 2 >>, << 3, 2 >>, << 3, 3 >> >>]

TestProblems ==
    { simple_balanced_problem, standard_balanced_problem, degenerate_problem }

TestSolutions ==
    { test_simple_optimal_solution, test_requires_optimization,
      test_degenerate_case, test_max_iterations_exceeded, test_invalid_basis,
      test_zero_costs, test_solution_maintains_constraints }

\* Row sums and column sums of an m x n list of rows.
RowSum(x, i) == SumSeq(x[i])
ColSum(x, j) == SumSeq([i \in 1..Len(x) |-> x[i][j]])

EmptyHeap == [a \in Addresses |-> << >>]
NoLocals == [supply |-> "", demand |-> ""]
NoResult == [returned |-> None, raised |-> None]
\* No second call.
NoFrame == << >>

\* solve(problem) called with the lists of p, on a
\* TLPSolver(VogelsMethod(), PotentialMethod(max_iterations = MaxIterations)).
InitSolveOn(p) ==
    /\ entry = "solve"
    /\ max_iterations = MaxIterations
    /\ heap = [EmptyHeap EXCEPT !["problem.supply"] = p.supply,
                                !["problem.demand"] = p.demand,
                                !["problem.costs"] = p.costs]
    /\ initial_solution = None
    /\ pc = "solve"

InitSolve == \E p \in GeneratedProblems \cup TestProblems : InitSolveOn(p)

\* The well-formed balanced problems with MaxBalancedConsumers consumers.
InitSolveBalanced ==
    \E m \in 1..MaxSuppliers :
      \E supply \in [1..m -> Amounts],
         demand \in [1..MaxBalancedConsumers -> Amounts] :
        /\ SumSeq(supply) = SumSeq(demand)
        /\ \E costs \in [1..m -> [1..MaxBalancedConsumers -> CostValues]] :
              InitSolveOn([supply |-> supply, demand |-> demand,
                           costs |-> costs])

\* solve_from_bfs(problem, initial_solution) called with the lists of s,
\* on a PotentialMethod(max_iterations = k).
InitCall(s, k) ==
    /\ entry = "solve_from_bfs"
    /\ max_iterations = k
    /\ heap = [EmptyHeap EXCEPT !["problem.supply"] = s.supply,
                                !["problem.demand"] = s.demand,
                                !["problem.costs"] = s.costs,
                                !["bfs.allocation"] = s.allocation,
                                !["bfs.basis"] = s.basis]
    /\ initial_solution =
           Some(BFSolution(BasisCost(s.allocation, s.costs, s.basis)))
    /\ pc = "solve_from_bfs"

\* The generated calls of solve_from_bfs: a plan x with entries in Amounts,
\* the well-formed balanced problem whose supply and demand are x's row and
\* column sums (when these are in Amounts), any costs, and any set of cells
\* as the basis.
InitGeneratedSolution ==
    \E m \in 1..MaxSuppliers, n \in 1..MaxConsumers :
      \E x \in [1..m -> [1..n -> Amounts]] :
        /\ \A i \in 1..m : RowSum(x, i) \in Amounts
        /\ \A j \in 1..n : ColSum(x, j) \in Amounts
        /\ \E costs \in [1..m -> [1..n -> CostValues]], B \in SUBSET Cells(m, n),
              k \in {1, MaxIterations} :
             InitCall([supply |-> [i \in 1..m |-> RowSum(x, i)],
                       demand |-> [j \in 1..n |-> ColSum(x, j)],
                       costs |-> costs, allocation |-> x,
                       basis |-> Enumerate(B)], k)

\* The calls of test_potential.py, with every max_iterations of the model.
InitTestSolution ==
    \E s \in TestSolutions, k \in 0..MaxIterations : InitCall(s, k)

Init ==
    /\ InitSolve \/ InitSolveBalanced \/ InitGeneratedSolution
       \/ InitTestSolution
    /\ problem = CallerProblem
    /\ vogel = NoLocals
    /\ modi = NoLocals
    /\ result = NoResult
    /\ given = heap
    /\ parked = NoFrame


\* ------------------------------------------------------- TLPSolver.solve
\* Line 26, the problem balanced: nothing to do.
SolveBalanced ==
    /\ pc = "solve"
    /\ is_balanced(heap, problem)
    /\ pc' = "find_initial_bfs"
    /\ UNCHANGED << heap, entry, max_iterations, problem, vogel,
                    initial_solution, modi, result, given, parked >>

\* Lines 26-27: problem = self._balance_problem(problem).
SolveBalance ==
    /\ pc = "solve"
    /\ ~is_balanced(heap, problem)
    /\ LET b == balance_problem(heap, problem)
           h1 == Store(heap, BalancedProblem.supply, b.supply)
           h2 == Store(h1, BalancedProblem.demand, b.demand)
       IN  heap' = Store(h2, BalancedProblem.costs, b.costs)
    /\ problem' = BalancedProblem
    /\ pc' = "find_initial_bfs"
    /\ UNCHANGED << entry, max_iterations, vogel, initial_solution, modi,
                    result, given, parked >>

\* Rows of different lengths: np.array(rows, dtype=float) raises ValueError.
IsRagged(rows) ==
    \E a, b \in 1..Len(rows) : Len(rows[a]) # Len(rows[b])

\* find_initial_bfs lines 17-26.  np.array raises on ragged rows, and
\* `m, n = costs.shape` raises when costs is [] (shape (0,)); both are
\* caught by solve.
FindInitialBfs ==
    /\ pc = "find_initial_bfs"
    /\ LET costs == heap[problem.costs]
       IN  IF IsRagged(costs)
           THEN /\ result' = RaisedInSolve("inhomogeneous shape")
                /\ pc' = "done"
                /\ UNCHANGED << heap, vogel >>
           ELSE IF Len(Shape(costs)) # 2
           THEN /\ result' =
                      RaisedInSolve("not enough values to unpack (expected 2, got 1)")
                /\ pc' = "done"
                /\ UNCHANGED << heap, vogel >>
           ELSE LET supply == ListCopy(problem.supply, "vogel.supply")
                    demand == ListCopy(problem.demand, "vogel.demand")
                    h1 == Store(heap, supply, heap[problem.supply])
                IN  /\ heap' = Store(h1, demand, h1[problem.demand])
                    /\ vogel' = VogelLocals(supply, demand, costs,
                                            Shape(costs)[1], Shape(costs)[2])
                    /\ pc' = "vogel_loop"
                    /\ UNCHANGED result
    /\ UNCHANGED << entry, max_iterations, problem, initial_solution, modi,
                    given, parked >>

\* One iteration of the while loop of find_initial_bfs (lines 28-61).
VogelIterate ==
    /\ pc = "vogel_loop"
    /\ VogelContinues(vogel)
    /\ IF VogelIndexError(heap, vogel)
       THEN /\ result' = RaisedInSolve("list index out of range")
            /\ pc' = "done"
            /\ UNCHANGED << heap, vogel >>
       ELSE /\ heap' = VogelAllocate(heap, vogel).heap
            /\ vogel' = VogelAllocate(heap, vogel).locals
            /\ UNCHANGED << pc, result >>
    /\ UNCHANGED << entry, max_iterations, problem, initial_solution, modi,
                    given, parked >>

\* The loop has ended: lines 63-71 build the BFSolution.
VogelReturn ==
    /\ pc = "vogel_loop"
    /\ ~VogelContinues(vogel)
    /\ LET total_cost ==
               BasisCost(vogel.allocation, heap[problem.costs], vogel.basis)
           bfs == BFSolution(total_cost)
           h1 == Store(heap, bfs.allocation, vogel.allocation)
       IN  /\ heap' = Store(h1, bfs.basis, vogel.basis)
           /\ initial_solution' = Some(bfs)
    /\ pc' = "check_bfs"
    /\ UNCHANGED << entry, max_iterations, problem, vogel, modi, result,
                    given, parked >>

\* Truth value of an Optional[BFSolution]: a dataclass instance is truthy,
\* None is not.
Truthy(optional) == optional # None

\* solve lines 29-34: `if not initial_solution`.
SolveCheckBfs ==
    /\ pc = "check_bfs"
    /\ IF ~Truthy(initial_solution)
       THEN /\ result' = Returned(TLPResult("infeasible", None, None,
                                            Some("No initial BFS found")))
            /\ pc' = "done"
       ELSE /\ pc' = "solve_from_bfs"
            /\ UNCHANGED result
    /\ UNCHANGED << heap, entry, max_iterations, problem, vogel,
                    initial_solution, modi, given, parked >>

\* ------------------------------------- PotentialMethod.solve_from_bfs
\* Lines 23-26: the working copies.
ModiStart ==
    /\ pc = "solve_from_bfs"
    /\ LET bfs == initial_solution[1]
           shape == Shape(heap[bfs.allocation])
       IN  IF Len(shape) # 2
           THEN /\ result' =
                      RaisedInModi("not enough values to unpack (expected 2, got 1)")
                /\ pc' = "done"
                /\ UNCHANGED << heap, modi >>
           ELSE LET allocation == ListCopy(bfs.allocation, "modi.allocation")
                IN  /\ heap' = Store(heap, allocation, heap[bfs.allocation])
                    /\ modi' = [allocation |-> allocation,
                                basis |-> {heap[bfs.basis][k] :
                                             k \in 1..Len(heap[bfs.basis])},
                                costs |-> heap[problem.costs],
                                m |-> shape[1], n |-> shape[2], it |-> 0]
                    /\ pc' = "modi_loop"
                    /\ UNCHANGED result
    /\ UNCHANGED << entry, max_iterations, problem, vogel, initial_solution,
                    given, parked >>

\* The potentials, the smallest reduced cost and the entering cell of the
\* current iteration (lines 30-53).
Potentials ==
    calculate_potentials(modi.costs, Enumerate(modi.basis), modi.m, modi.n)
\* u, v, the entering cell and the cycle are computed once in an iteration
\* and then used by name: pot, e, cells and cycle stand for the values.
MinDelta ==
    CHOOSE r \in {np_min(modi.costs, pot, modi.basis, modi.m, modi.n) :
                     pot \in {Potentials}} : TRUE
EnteringCell ==
    CHOOSE r \in {entering_cell(modi.costs, pot, modi.basis, modi.m, modi.n) :
                     pot \in {Potentials}} : TRUE
Cycle ==
    CHOOSE r \in {find_cycle(e, cells, modi.m, modi.n) :
                     e \in {EnteringCell}, cells \in {Enumerate(modi.basis)}} :
        TRUE

\* Faulty variant of InLoop: one iteration more than max_iterations.
InLoopInclusive == pc = "modi_loop" /\ modi.it <= max_iterations

\* `for _ in range(self.max_iterations)` has another iteration to run.
InLoop == pc = "modi_loop" /\ modi.it < max_iterations
ZeroSize == modi.m * modi.n = 0

Finish(r) ==
    /\ result' = r
    /\ pc' = "done"
    /\ UNCHANGED << heap, entry, max_iterations, problem, vogel,
                    initial_solution, modi, given, parked >>

\* np.min of an array without elements raises ValueError, caught at line 69.
ModiZeroSize ==
    /\ InLoop
    /\ ZeroSize
    /\ Finish(RaisedInModi("zero-size array to reduction operation minimum which has no identity"))

\* Lines 41-48: the optimality test passes.
ModiOptimal ==
    /\ InLoop
    /\ ~ZeroSize
    /\ OptimalCondition(MinDelta)
    /\ LET total_cost == SumCells(heap[modi.allocation], modi.costs,
                                  Cells(modi.m, modi.n))
       IN  Finish(Returned(TLPResult("optimal", Some(total_cost),
                                     Some(heap[modi.allocation]), None)))

\* Lines 54-60: no cycle through the entering cell.
ModiNoCycle ==
    /\ InLoop
    /\ ~ZeroSize
    /\ ~OptimalCondition(MinDelta)
    /\ Cycle = None
    /\ Finish(Returned(TLPResult("error", None, None,
                                 Some("Could not find cycle for improvement"))))

\* Lines 61-62: the pivot; the allocation array is updated in place.
ModiPivot ==
    /\ InLoop
    /\ ~ZeroSize
    /\ ~OptimalCondition(MinDelta)
    /\ Cycle # None
    /\ \E upd \in {update_solution(heap[modi.allocation], modi.basis, cycle) :
                       cycle \in {Cycle}} :
           /\ heap' = Store(heap, modi.allocation, upd.allocation)
           /\ modi' = [modi EXCEPT !.basis = upd.basis, !.it = @ + 1]
    /\ UNCHANGED << entry, max_iterations, pc, problem, vogel,
                    initial_solution, result, given, parked >>

\* Lines 64-68: the for loop has run max_iterations times.
ModiExhausted ==
    /\ pc = "modi_loop"
    /\ modi.it >= max_iterations
    /\ Finish(Returned(TLPResult("error", None, None,
           Some("Max iterations (" \o ToString(max_iterations) \o ") reached"))))

Next ==
    \/ SolveBalanced
    \/ SolveBalance
    \/ FindInitialBfs
    \/ VogelIterate
    \/ VogelReturn
    \/ SolveCheckBfs
    \/ ModiStart
    \/ ModiZeroSize
    \/ ModiOptimal
    \/ ModiNoCycle
    \/ ModiPivot
    \/ ModiExhausted

Spec == Init /\ [][Next]_vars

\* ------------------------------- two calls of solve on one shared solver
\* The solver objects hold bfs_finder, algorithm, max_iterations and EPSILON,
\* all set once by __init__.  Everything else a call works on is held in
\* local names of its frame and in objects created during the call (the
\* working lists, the allocation array, the basis), reachable from that
\* frame only; the calls are given their own TLPProblem objects.

\* Faulty variant of OwnObject: the remaining supply and demand of
\* find_initial_bfs are kept on the shared VogelsMethod object, so a resumed
\* call finds what the other call left there.
SharedWorkingLists(a, own, left) ==
    IF a \in {"vogel.supply", "vogel.demand"} THEN left ELSE own

\* The contents a resumed call finds at address a: those of its own object
\* (own), whatever the other call left in its object of that name (left).
OwnObject(a, own, left) == own

\* The heap of a call of solve on the lists of p.
ProblemHeap(p) ==
    [EmptyHeap EXCEPT !["problem.supply"] = p.supply,
                      !["problem.demand"] = p.demand,
                      !["problem.costs"] = p.costs]

\* The frame of the running call, and the frame of a call of solve(p) that
\* has not taken a step.
Frame ==
    [heap |-> heap, entry |-> entry, pc |-> pc, problem |-> problem,
     vogel |-> vogel, initial_solution |-> initial_solution, modi |-> modi,
     result |-> result, given |-> given]
StartFrame(p) ==
    [heap |-> ProblemHeap(p), entry |-> "solve", pc |-> "solve",
     problem |-> CallerProblem, vogel |-> NoLocals,
     initial_solution |-> None, modi |-> NoLocals, result |-> NoResult,
     given |-> ProblemHeap(p)]

\* The problems the two calls are given: those of test_vogel.py, one whose
\* cost array has no elements, one that is solved by a pivot, and balanced
\* and unbalanced 2 x 2 problems.
ConcurrentProblems ==
    TestProblems
    \cup {[supply |-> << 0 >>, demand |-> << >>, costs |-> << << >> >>],
          [supply |-> Whole(<< 1, 1 >>), demand |-> Whole(<< 0, 0, 2 >>),
           costs |-> << << 0, 0, 2 >>, << 1, 0, 1 >> >>]}
    \cup {[supply |-> s, demand |-> d, costs |-> << << 2, 1 >>, << 0, 2 >> >>] :
             s \in [1..2 -> {One, 2 * One}], d \in [1..2 -> {One, 2 * One}]}

\* solve(p) and solve(q) called on one
\* TLPSolver(VogelsMethod(), PotentialMethod(max_iterations = k)).
InitConcurrent ==
    \E p \in ConcurrentProblems, q \in ConcurrentProblems,
       k \in {1, MaxIterations} :
        /\ entry = "solve"
        /\ pc = "solve"
        /\ max_iterations = k
        /\ heap = ProblemHeap(p)
        /\ problem = CallerProblem
        /\ vogel = NoLocals
        /\ initial_solution = None
        /\ modi = NoLocals
        /\ result = NoResult
        /\ given = heap
        /\ parked = StartFrame(q)

\* The scheduler suspends the running call and resumes the other one.
Switch ==
    /\ parked # NoFrame
    /\ parked' = Frame
    /\ heap' = [a \in Addresses |-> OwnObject(a, parked.heap[a], heap[a])]
    /\ entry' = parked.entry
    /\ pc' = parked.pc
    /\ problem' = parked.problem
    /\ vogel' = parked.vogel
    /\ initial_solution' = parked.initial_solution
    /\ modi' = parked.modi
    /\ result' = parked.result
    /\ given' = parked.given
    /\ UNCHANGED max_iterations

NextConcurrent ==
    \/ SolveBalanced
    \/ SolveBalance
    \/ FindInitialBfs
    \/ VogelIterate
    \/ VogelReturn
    \/ SolveCheckBfs
    \/ ModiStart
    \/ ModiZeroSize
    \/ ModiOptimal
    \/ ModiNoCycle
    \/ ModiPivot
    \/ ModiExhausted
    \/ Switch

SpecConcurrent == InitConcurrent /\ [][NextConcurrent]_vars

\* ------------------------------------------------- the calls run to the end
\* The calls whose termination is checked: solve on the problems of
\* ConcurrentProblems with at most MaxBalancedConsumers consumers,
\* solve_from_bfs on the calls of test_potential.py (every max_iterations
\* of the model), and solve_from_bfs on
\* every plan of 0s and 1s for MaxSuppliers x MaxConsumers cells with every
\* set of cells as the basis.
LiveCosts == << << 2, 1 >>, << 0, 2 >> >>
InitLive ==
    /\ \/ \E p \in {q \in ConcurrentProblems :
                        Len(q.demand) <= MaxBalancedConsumers} : InitSolveOn(p)
       \/ \E s \in TestSolutions, k \in 0..MaxIterations : InitCall(s, k)
       \/ \E x \in [1..MaxSuppliers -> [1..MaxConsumers -> {0, One}]],
             B \in SUBSET Cells(MaxSuppliers, MaxConsumers),
             k \in {1, MaxIterations} :
               InitCall([supply |-> [i \in 1..MaxSuppliers |-> RowSum(x, i)],
                         demand |-> [j \in 1..MaxConsumers |-> ColSum(x, j)],
                         costs |-> LiveCosts, allocation |-> x,
                         basis |-> Enumerate(B)], k)
    /\ problem = CallerProblem
    /\ vogel = NoLocals
    /\ modi = NoLocals
    /\ result = NoResult
    /\ given = heap
    /\ parked = NoFrame

\* The call is one thread of control: while a step of it can be taken, one
\* is taken.
SpecLive == InitLive /\ [][Next]_vars /\ WF_vars(Next)

\* -------------------------------------- find_initial_bfs called on its own
\* find_initial_bfs(problem) called with the lists of p.
InitVogelOn(p) ==
    /\ entry = "find_initial_bfs"
    /\ pc = "find_initial_bfs"
    /\ heap = [EmptyHeap EXCEPT !["problem.supply"] = p.supply,
                                !["problem.demand"] = p.demand,
                                !["problem.costs"] = p.costs]

\* The calls of find_initial_bfs: the well-formed balanced problems with
\* supplies and demands in Amounts and costs in -MaxNegativeCost..MaxCost, and the
\* problems of test_vogel.py.
InitVogel ==
    /\ \/ \E m \in 1..MaxSuppliers, n \in 1..MaxConsumers :
            \E supply \in [1..m -> Amounts], demand \in [1..n -> Amounts] :
              /\ SumSeq(supply) = SumSeq(demand)
              /\ \E costs \in [1..m -> [1..n -> (0 - MaxNegativeCost)..MaxCost]] :
                    InitVogelOn([supply |-> supply, demand |-> demand,
                                 costs |-> costs])
       \/ \E p \in TestProblems : InitVogelOn(p)
    /\ max_iterations = MaxIterations
    /\ problem = CallerProblem
    /\ vogel = NoLocals
    /\ initial_solution = None
    /\ modi = NoLocals
    /\ result = NoResult
    /\ given = heap
    /\ parked = NoFrame

NextVogel ==
    \/ FindInitialBfs
    \/ VogelIterate
    \/ VogelReturn

SpecVogel == InitVogel /\ [][NextVogel]_vars

\* ------------------------------------------- _find_cycle called on its own
\* The sequences without repetition over the set S: the orders in which
\* `for i, j in basis` can enumerate the set.
ScanOrders(S) ==
    {f \in [1..Cardinality(S) -> S] :
        \A a, b \in 1..Cardinality(S) : a # b => f[a] # f[b]}

\* _find_cycle(entering_cell, basis, m, n) called with any set of cells as
\* the basis, enumerated in any order, and any cell outside it as the
\* entering cell.
InitFindCycle ==
    /\ entry = "_find_cycle"
    /\ pc = "find_cycle"
    /\ \E m \in 1..MaxSuppliers, n \in 1..MaxBalancedConsumers :
         \E B \in SUBSET Cells(m, n) :
           \E cells \in ScanOrders(B), e \in Cells(m, n) \ B :
             given = [entering_cell |-> e, basis |-> cells, m |-> m, n |-> n]
    /\ max_iterations = MaxIterations
    /\ heap = EmptyHeap
    /\ problem = CallerProblem
    /\ vogel = NoLocals
    /\ initial_solution = None
    /\ modi = NoLocals
    /\ result = NoResult
    /\ parked = NoFrame

\* Lines 165-182: the cycle found, or None, is returned.
FindCycleCall ==
    /\ pc = "find_cycle"
    /\ result' = Returned(find_cycle(given.entering_cell, given.basis,
                                     given.m, given.n))
    /\ pc' = "done"
    /\ UNCHANGED << heap, entry, max_iterations, problem, vogel,
                    initial_solution, modi, given, parked >>

NextFindCycle == FindCycleCall

SpecFindCycle == InitFindCycle /\ [][NextFindCycle]_vars

\* ------------------------- the penalty functions called on their own
\* The cost array of TestVogelsPenalties (test_vogel.py).
penalties_test_costs == << << 2, 3, 1 >>, << 4, 1, 5 >> >>

\* The cost arrays of r rows and c columns the penalty functions are
\* called with.
PenaltyCosts(r, c) ==
    UNION {[1..m -> [1..n -> CostValues]] : m \in 1..r, n \in 1..c}
    \cup {penalties_test_costs}

\* _calculate_row_penalties(costs, active_rows, active_cols) called with up
\* to MaxSuppliers rows and MaxBalancedConsumers columns, and
\* _calculate_col_penalties with up to MaxBalancedConsumers rows and
\* MaxSuppliers columns; any sets of rows and columns of the array are the
\* active ones.
InitPenalties ==
    /\ pc = "penalties"
    /\ \/ /\ entry = "_calculate_row_penalties"
          /\ \E costs \in PenaltyCosts(MaxSuppliers, MaxBalancedConsumers) :
               \E rows \in SUBSET (1..Len(costs)),
                  cols \in SUBSET (1..Len(costs[1])) :
                 given = [costs |-> costs, active_rows |-> rows,
                          active_cols |-> cols]
       \/ /\ entry = "_calculate_col_penalties"
          /\ \E costs \in PenaltyCosts(MaxBalancedConsumers, MaxSuppliers) :
               \E rows \in SUBSET (1..Len(costs)),
                  cols \in SUBSET (1..Len(costs[1])) :
                 given = [costs |-> costs, active_rows |-> rows,
                          active_cols |-> cols]
    /\ max_iterations = MaxIterations
    /\ heap = EmptyHeap
    /\ problem = CallerProblem
    /\ vogel = NoLocals
    /\ initial_solution = None
    /\ modi = NoLocals
    /\ result = NoResult
    /\ parked = NoFrame

\* Lines 73-82: the dict of row penalties is returned.
RowPenaltiesCall ==
    /\ pc = "penalties"
    /\ entry = "_calculate_row_penalties"
    /\ result' = Returned(calculate_row_penalties(given.costs,
                              given.active_rows, given.active_cols))
    /\ pc' = "done"
    /\ UNCHANGED << heap, entry, max_iterations, problem, vogel,
                    initial_solution, modi, given, parked >>

\* Lines 84-93: the dict of column penalties is returned.
ColPenaltiesCall ==
    /\ pc = "penalties"
    /\ entry = "_calculate_col_penalties"
    /\ result' = Returned(calculate_col_penalties(given.costs,
                              given.active_rows, given.active_cols))
    /\ pc' = "done"
    /\ UNCHANGED << heap, entry, max_iterations, problem, vogel,
                    initial_solution, modi, given, parked >>

NextPenalties == RowPenaltiesCall \/ ColPenaltiesCall

SpecPenalties == InitPenalties /\ [][NextPenalties]_vars


\* ------------------------------------------------------------ properties
\* The call has returned (or raised), and the TLPResult it returned.
Done == pc = "done"
HasResult == result.returned # None
Res == result.returned[1]
IsOptimal == Done /\ HasResult /\ Res.status = "optimal"

\* The caller's arguments as they were when the call started.
GivenSupply == given["problem.supply"]
GivenDemand == given["problem.demand"]
GivenCosts == given["problem.costs"]

\* The given problem has suppliers and consumers and a cost for every route.
WellFormed ==
    /\ Len(GivenSupply) >= 1
    /\ Len(GivenDemand) >= 1
    /\ ~IsRagged(GivenCosts)
    /\ Shape(GivenCosts) = << Len(GivenSupply), Len(GivenDemand) >>
GivenNonNegative ==
    /\ \A i \in 1..Len(GivenSupply) : GivenSupply[i] >= 0
    /\ \A j \in 1..Len(GivenDemand) : GivenDemand[j] >= 0
GivenBalanced == SumSeq(GivenSupply) = SumSeq(GivenDemand)

\* The whole part of an amount w * One + e.
WholePart(a) == (a + One \div 2) \div One
\* |a - b| < 1e-4: since every e is far below 1e-4 / EPSILON, the two amounts
\* are that close exactly when their difference has whole part 0.
Close(a, b) == WholePart(a - b) = 0

\* Row sums of x are supply and column sums are demand, within 1e-4.
Conserves(x, supply, demand) ==
    /\ Len(x) = Len(supply)
    /\ \A i \in 1..Len(x) : Len(x[i]) = Len(demand)
    /\ \A i \in 1..Len(supply) : Close(RowSum(x, i), supply[i])
    /\ \A j \in 1..Len(demand) : Close(ColSum(x, j), demand[j])

\* The plans with entries in Amounts that meet supply and demand exactly.
\* The minimum cost over all non-negative plans is attained at a vertex of
\* the transportation polytope, whose entries are sums and differences of
\* supplies and demands, so for supplies and demands in Amounts the minimum
\* over these plans is the minimum over all plans.
FeasiblePlans(supply, demand) ==
    {x \in [1..Len(supply) -> [1..Len(demand) -> Amounts]] :
        /\ \A i \in 1..Len(supply) : RowSum(x, i) = supply[i]
        /\ \A j \in 1..Len(demand) : ColSum(x, j) = demand[j]}
MinCost(supply, demand, costs) ==
    MinOf({SumCells(x, costs, Cells(Len(supply), Len(demand))) :
              x \in FeasiblePlans(supply, demand)})
GivenInAmounts ==
    /\ \A i \in 1..Len(GivenSupply) : GivenSupply[i] \in Amounts
    /\ \A j \in 1..Len(GivenDemand) : GivenDemand[j] \in Amounts

\* C1: for every balanced problem with non-negative supply and demand,
\* whenever solve returns OPTIMAL, optimal_value is the minimum cost over all
\* non-negative plans that meet supply and demand (compared within 1e-4).
OptimalValueIsMinimum ==
    (/\ IsOptimal
     /\ entry = "solve"
     /\ WellFormed
     /\ GivenNonNegative
     /\ GivenBalanced
     /\ GivenInAmounts)
    => Close(Res.optimal_value[1],
             MinCost(GivenSupply, GivenDemand, GivenCosts))

\* The allocation solve_from_bfs starts from meets supply and demand.
StartConserves ==
    /\ initial_solution # None
    /\ Conserves(heap["bfs.allocation"], GivenSupply, GivenDemand)
    /\ \A i \in 1..Len(GivenSupply) :
           RowSum(heap["bfs.allocation"], i) = GivenSupply[i]
    /\ \A j \in 1..Len(GivenDemand) :
           ColSum(heap["bfs.allocation"], j) = GivenDemand[j]

\* C2: conservation.  For any OPTIMAL result of solve, and of solve_from_bfs
\* started from an allocation that meets supply and demand, the returned
\* solution has row sums equal to the supply and column sums equal to the
\* demand of the (balanced) problem, within 1e-4.
Conservation ==
    (/\ IsOptimal
     /\ WellFormed
     /\ GivenNonNegative
     /\ entry = "solve" \/ StartConserves)
    => Conserves(Res.solution[1], heap[problem.supply], heap[problem.demand])

\* No entry of the list of rows x is below -EPSILON.
NoNegativeEntry(x) ==
    \A i \in 1..Len(x) : \A j \in 1..Len(x[i]) : x[i][j] >= -EPSILON
StartNonNegative ==
    \A i \in 1..Len(heap["bfs.allocation"]) :
        \A j \in 1..Len(heap["bfs.allocation"][i]) :
            heap["bfs.allocation"][i][j] >= 0

\* C3: non-negativity.  Starting from a non-negative allocation, after every
\* pivot update no entry of the optimizer's allocation is below -EPSILON.
NonNegativeAfterPivot ==
    (pc \in {"modi_loop", "done"} /\ StartNonNegative)
    => NoNegativeEntry(heap["modi.allocation"])

\* An internal fault has happened in find_initial_bfs: the cost matrix is
\* not a two-dimensional array, or a selected cell lies outside supply or
\* demand.
FaultInVogel ==
    /\ entry = "solve"
    /\ \/ IsRagged(heap[problem.costs])
       \/ Len(Shape(heap[problem.costs])) # 2
       \/ /\ vogel # NoLocals
          /\ VogelContinues(vogel)
          /\ VogelIndexError(heap, vogel)
\* An internal fault has happened in solve_from_bfs: the allocation is not
\* a two-dimensional array, or it has no elements.
FaultInModi ==
    /\ initial_solution # None
    /\ \/ Len(Shape(heap["bfs.allocation"])) # 2
       \/ modi # NoLocals /\ ZeroSize

\* C4: solve and solve_from_bfs never raise.  For every input, malformed
\* ones included, no exception reaches the caller, the finished call has
\* returned a result, and after an internal fault that result has status
\* ERROR and a non-empty error_message.
NeverRaises ==
    /\ result.raised = None
    /\ Done => HasResult
    /\ (Done /\ HasResult /\ (FaultInVogel \/ FaultInModi))
       => /\ Res.status = "error"
          /\ Res.error_message # None
          /\ Res.error_message[1] # ""
\* solve has caught an IndexError raised in find_initial_bfs.
NeverRaisesWitness ==
    /\ Done
    /\ FaultInVogel
    /\ HasResult
    /\ Res.error_message = Some("Solver error: list index out of range")

\* C5: for a problem with empty supply or empty demand, solve returns
\* status INFEASIBLE with the message "No initial BFS found".
EmptyProblemIsInfeasible ==
    (/\ Done
     /\ entry = "solve"
     /\ GivenSupply = << >> \/ GivenDemand = << >>)
    => /\ HasResult
       /\ Res.status = "infeasible"
       /\ Res.error_message = Some("No initial BFS found")

\* solve was called with the degenerate problem of the test suite.
GivenDegenerate ==
    /\ entry = "solve"
    /\ GivenSupply = degenerate_problem.supply
    /\ GivenDemand = degenerate_problem.demand
    /\ GivenCosts = degenerate_problem.costs

\* C6: degenerate bases are tolerated.  For supply=[10,10], demand=[10,10],
\* costs=[[1,2],[3,4]] Vogel's method yields a basis of 2 cells (fewer than
\* m+n-1 = 3), and solve, which starts the optimizer from that BFS, still
\* returns OPTIMAL.
DegenerateBasisReachesOptimal ==
    (Done /\ GivenDegenerate)
    => /\ Len(heap["bfs.basis"]) = 2
       /\ HasResult
       /\ Res.status = "optimal"

\* C7: every result returned by solve or solve_from_bfs has a status in
\* {OPTIMAL, INFEASIBLE, ERROR}; an OPTIMAL result has a solution and an
\* optimal_value and no error_message, any other result has an error_message
\* and neither solution nor optimal_value.
ResultWellFormed ==
    (Done /\ HasResult)
    => /\ Res.status \in {"optimal", "infeasible", "error"}
       /\ Res.status = "optimal"
          => /\ Res.solution # None
             /\ Res.optimal_value # None
             /\ Res.error_message = None
       /\ Res.status # "optimal"
          => /\ Res.error_message # None
             /\ Res.solution = None
             /\ Res.optimal_value = None
\* solve has returned OPTIMAL after a pivot.
ResultWellFormedWitness ==
    /\ IsOptimal
    /\ entry = "solve"
    /\ modi.it >= 1

\* C8: balancing.  For an unbalanced problem _balance_problem returns a
\* balanced problem with exactly one element added: when supply exceeds
\* demand a dummy consumer whose demand is the difference, with cost 0 in
\* every row; when demand exceeds supply a dummy supplier whose supply is the
\* difference, with cost 0 in every column.  The real supplies, demands and
\* costs keep their values and positions.
BalancingAddsOneDummy ==
    (problem # CallerProblem)
    => LET supply == heap[problem.supply]
           demand == heap[problem.demand]
           costs == heap[problem.costs]
           excess == SumSeq(GivenSupply) - SumSeq(GivenDemand)
       IN  /\ SumSeq(supply) = SumSeq(demand)
           /\ excess # 0
           /\ excess > 0
              => /\ supply = GivenSupply
                 /\ demand = Append(GivenDemand, excess)
                 /\ Len(costs) = Len(GivenCosts)
                 /\ \A i \in 1..Len(costs) : costs[i] = Append(GivenCosts[i], 0)
           /\ excess < 0
              => /\ demand = GivenDemand
                 /\ supply = Append(GivenSupply, -excess)
                 /\ costs = Append(GivenCosts,
                                   [j \in 1..Len(GivenDemand) |-> 0])
\* A dummy supplier has been added to a well-formed problem.
BalancingWitness ==
    /\ problem # CallerProblem
    /\ WellFormed
    /\ SumSeq(GivenDemand) > SumSeq(GivenSupply)
    /\ Len(heap[problem.supply]) = Len(GivenSupply) + 1

\* C9: the caller's problem is never modified.  During and after solve
\* (balanced or unbalanced input, any status), find_initial_bfs and
\* solve_from_bfs, problem.supply, problem.demand and problem.costs hold
\* exactly what they held when the call started.
CallerProblemUnchanged ==
    \A a \in {CallerProblem.supply, CallerProblem.demand, CallerProblem.costs} :
        heap[a] = given[a]
\* solve has returned for an unbalanced problem, after find_initial_bfs has
\* consumed its working copies of supply and demand.
CallerProblemWitness ==
    /\ Done
    /\ entry = "solve"
    /\ WellFormed
    /\ problem # CallerProblem
    /\ vogel # NoLocals
    /\ heap[vogel.supply] # GivenSupply
    /\ heap[vogel.demand] # GivenDemand

\* solve_from_bfs was called with the arguments of
\* test_max_iterations_exceeded on a PotentialMethod(max_iterations = 1).
GivenMaxIterationsTest ==
    /\ entry = "solve_from_bfs"
    /\ max_iterations = 1
    /\ GivenSupply = test_max_iterations_exceeded.supply
    /\ GivenCosts = test_max_iterations_exceeded.costs
    /\ given["bfs.allocation"] = test_max_iterations_exceeded.allocation
    /\ given["bfs.basis"] = test_max_iterations_exceeded.basis

\* C10: iteration cap.  When max_iterations iterations have run without the
\* optimality test being satisfied, solve_from_bfs returns status ERROR with
\* the message "Max iterations (N) reached", N being max_iterations; with
\* max_iterations = 1 the call of test_max_iterations_exceeded returns it.
IterationCap ==
    /\ (Done /\ modi # NoLocals /\ modi.it >= max_iterations)
       => /\ HasResult
          /\ Res.status = "error"
          /\ Res.error_message =
                Some("Max iterations (" \o ToString(max_iterations)
                     \o ") reached")
    /\ (Done /\ GivenMaxIterationsTest)
       => /\ HasResult
          /\ Res.status = "error"
          /\ Res.error_message = Some("Max iterations (1) reached")
\* The call of test_max_iterations_exceeded has returned after one pivot.
IterationCapWitness ==
    /\ Done
    /\ GivenMaxIterationsTest
    /\ modi.it = 1

\* The optimizer has started: its locals exist.
InModi == modi # NoLocals
\* Both potentials of cell c are derived (not nan) in the potentials pot.
Derived(pot, c) == ~isnan(pot.u[c[1]]) /\ ~isnan(pot.v[c[2]])
\* costs[i][j] - u[i] - v[j] of a cell whose potentials are derived.
ReducedCost(costs, pot, c) ==
    costs[c[1]][c[2]] - pot.u[c[1]][1] - pot.v[c[2]][1]
\* The cells of the optimizer's array that are not in its basis.
NonBasic == Cells(modi.m, modi.n) \ modi.basis

\* C11: optimality certificate.  Whenever solve_from_bfs terminates with
\* OPTIMAL, every non-basic cell of the final basis whose potentials are both
\* derived has reduced cost costs[i][j] - u[i] - v[j] >= -EPSILON, u and v
\* being the potentials computed from the final basis.
OptimalityCertificate ==
    (IsOptimal /\ InModi)
    => \A c \in NonBasic :
          Derived(Potentials, c)
          => ReducedCost(modi.costs, Potentials, c) * One >= -EPSILON
\* OPTIMAL was returned after a pivot, and a non-basic cell of the final
\* basis has a positive reduced cost.
OptimalityCertificateWitness ==
    /\ IsOptimal
    /\ InModi
    /\ modi.it >= 1
    /\ \E c \in NonBasic :
          /\ Derived(Potentials, c)
          /\ ReducedCost(modi.costs, Potentials, c) > 0

\* The basis B, viewed as a graph on rows and columns with the cells as
\* edges, holds no cycle: every non-empty set of its cells has a cell that is
\* alone in its row or alone in its column.
Acyclic(B) ==
    \A S \in SUBSET B :
        S # {} => \E c \in S : \/ \A d \in S : d[1] = c[1] => d = c
                              \/ \A d \in S : d[2] = c[2] => d = c

RECURSIVE Linked(_, _)
\* The rows ("r") and columns ("c") joined to the nodes in N by cells of B.
Linked(B, N) ==
    LET more == N \cup {<< "c", c[2] >> : c \in {d \in B : << "r", d[1] >> \in N}}
                  \cup {<< "r", c[1] >> : c \in {d \in B : << "c", d[2] >> \in N}}
    IN  IF more = N THEN N ELSE Linked(B, more)
\* Cell c of B hangs on row 0 of the code (row 1 here), the row of u[0].
Anchored(B, c) == << "r", c[1] >> \in Linked(B, {<< "r", 1 >>})

\* u[i] + v[j] = costs[i][j] holds at cell c, both potentials being derived.
Consistent(costs, pot, c) ==
    /\ Derived(pot, c)
    /\ pot.u[c[1]][1] + pot.v[c[2]][1] = costs[c[1]][c[2]]

\* C12 as stated: potential consistency.  The potentials returned by
\* _calculate_potentials have u[0] = 0 and satisfy u[i] + v[j] = costs[i][j]
\* for every basic cell, for the basis at termination of the optimizer and
\* for any basis passed to _calculate_potentials, in whatever order the basic
\* cells are scanned.
PotentialConsistencyAnyBasis ==
    InModi
    => \A cells \in ScanOrders(modi.basis) :
          LET pot == calculate_potentials(modi.costs, cells, modi.m, modi.n)
          IN  /\ pot.u[1] = Num(0)
              /\ \A c \in modi.basis : Consistent(modi.costs, pot, c)

\* C12 amended: u[0] = 0 for every basis; for every basis that holds no
\* cycle, in whatever order the basic cells are scanned, every basic cell
\* joined to row 0 through basic cells satisfies u[i] + v[j] = costs[i][j]
\* and the potentials of every other basic cell stay underived; when solve
\* returns OPTIMAL, or solve_from_bfs returns OPTIMAL with a final basis that
\* holds no cycle, every basic cell of the final basis satisfies the equation.
PotentialConsistency ==
    InModi
    => /\ \A cells \in ScanOrders(modi.basis) :
             LET pot == calculate_potentials(modi.costs, cells, modi.m, modi.n)
             IN  /\ pot.u[1] = Num(0)
                 /\ Acyclic(modi.basis)
                    => \A c \in modi.basis :
                          IF Anchored(modi.basis, c)
                          THEN Consistent(modi.costs, pot, c)
                          ELSE isnan(pot.u[c[1]]) /\ isnan(pot.v[c[2]])
       /\ (IsOptimal /\ (entry = "solve" \/ Acyclic(modi.basis)))
          => \A c \in modi.basis : Consistent(modi.costs, Potentials, c)
\* After a pivot the optimizer holds a basis of m + n - 1 cells without a
\* cycle, every cell joined to row 0, and a potential that is not 0.
PotentialConsistencyWitness ==
    /\ InModi
    /\ modi.it >= 1
    /\ modi.m >= 2
    /\ Cardinality(modi.basis) = modi.m + modi.n - 1
    /\ Acyclic(modi.basis)
    /\ \A c \in modi.basis : Anchored(modi.basis, c)
    /\ \E i \in 1..modi.m : Potentials.u[i] \notin {nan, Num(0)}

\* _find_cycle was called on its own and has returned; its arguments.
FindCycleDone == entry = "_find_cycle" /\ Done
GivenBasis == {given.basis[k] : k \in 1..Len(given.basis)}

\* A closed alternating cycle through the cell e exists in B plus e: the
\* column of e is joined to the row of e by cells of B other than e.  A path
\* that joins them without repeating a row or a column alternates row moves
\* and column moves, starts in the row of e, ends in the column of e and
\* holds an odd number (>= 3) of distinct cells.
CycleExists(e, B) ==
    << "c", e[2] >> \in Linked(B \ {e}, {<< "r", e[1] >>})

\* Consecutive cells a and b share the row and not the column, and the
\* other way round.
RowMove(a, b) == a[1] = b[1] /\ a[2] # b[2]
ColMove(a, b) == a[2] = b[2] /\ a[1] # b[1]

\* The closed cycle (first cell repeated at the end) starts and ends at e,
\* visits an even number >= 4 of distinct cells, all but e in B, and its
\* moves, the closing one included, are in turn row moves and column moves.
WellFormedCycle(cycle, e, B) ==
    LET k == Len(cycle) - 1
    IN  /\ k >= 4
        /\ k % 2 = 0
        /\ cycle[1] = e
        /\ cycle[k + 1] = e
        /\ \A a, b \in 1..k : a # b => cycle[a] # cycle[b]
        /\ \A a \in 2..k : cycle[a] \in B
        /\ \A a \in 1..k :
              \/ RowMove(cycle[a], cycle[a + 1])
              \/ ColMove(cycle[a], cycle[a + 1])
        /\ \A a \in 1..k :
              RowMove(cycle[a], cycle[a + 1])
              <=> ~RowMove(cycle[(a % k) + 1], cycle[(a % k) + 2])

\* C13: cycle well-formedness.  For any entering cell and any basis, a cycle
\* returned by _find_cycle starts and ends at the entering cell, visits an
\* even number (>= 4) of distinct cells, every cell other than the entering
\* cell is a basic cell, and consecutive cells (the closing step included)
\* share exactly one of row or column, row moves and column moves strictly
\* alternating.
CycleWellFormed ==
    (FindCycleDone /\ Res # None)
    => WellFormedCycle(Res, given.entering_cell, GivenBasis)

\* C14: when the basis plus the entering cell holds no closed alternating
\* cycle through the entering cell, _find_cycle returns None (and
\* solve_from_bfs then returns ERROR, "Could not find cycle for improvement",
\* without a pivot); when such a cycle exists _find_cycle returns one.
NoCycleReturnsNone ==
    FindCycleDone
    => (Res = None <=> ~CycleExists(given.entering_cell, GivenBasis))

\* find_initial_bfs was called on its own and has returned its BFSolution.
VogelDone == entry = "find_initial_bfs" /\ pc = "check_bfs"
BfsAllocation == heap["bfs.allocation"]
BfsBasis == {heap["bfs.basis"][k] : k \in 1..Len(heap["bfs.basis"])}

\* C15: Vogel feasibility.  For every balanced problem with non-negative
\* supply and demand, the allocation returned by find_initial_bfs is
\* non-negative, has row sums equal to supply and column sums equal to
\* demand, is zero on every cell outside the returned basis, and its cost
\* field equals the sum of allocation[i][j] * costs[i][j].
VogelFeasible ==
    (VogelDone /\ WellFormed /\ GivenNonNegative /\ GivenBalanced)
    => /\ \A i \in 1..Len(GivenSupply) : \A j \in 1..Len(GivenDemand) :
             /\ BfsAllocation[i][j] >= 0
             /\ << i, j >> \notin BfsBasis => BfsAllocation[i][j] = 0
       /\ \A i \in 1..Len(GivenSupply) :
             RowSum(BfsAllocation, i) = GivenSupply[i]
       /\ \A j \in 1..Len(GivenDemand) :
             ColSum(BfsAllocation, j) = GivenDemand[j]
       /\ initial_solution[1].cost =
             SumCells(BfsAllocation, GivenCosts,
                      Cells(Len(GivenSupply), Len(GivenDemand)))

\* The cell the selection rule names for the locals v: the row (column) of
\* the highest penalty, lowest index on ties, and the cheapest active column
\* (row) in it, lowest index on ties; rows when the highest row penalty is
\* at least the highest column penalty.
SelectionRule(v) ==
    LET rp == calculate_row_penalties(v.costs, v.active_rows, v.active_cols)
        cp == calculate_col_penalties(v.costs, v.active_rows, v.active_cols)
    IN  IF MaxPenalty(rp) >= MaxPenalty(cp)
        THEN LET i == MinOf({r \in DOMAIN rp : rp[r] = MaxPenalty(rp)})
                 cheapest == MinOf({v.costs[i][c] : c \in v.active_cols})
             IN  << i, MinOf({c \in v.active_cols : v.costs[i][c] = cheapest}) >>
        ELSE LET j == MinOf({c \in DOMAIN cp : cp[c] = MaxPenalty(cp)})
                 cheapest == MinOf({v.costs[r][j] : r \in v.active_rows})
             IN  << MinOf({r \in v.active_rows : v.costs[r][j] = cheapest}), j >>

\* An iteration of find_initial_bfs has allocated to a cell: the cell is the
\* one the selection rule names and the amount is the smaller of the
\* remaining supply and the remaining demand.
VogelStepFollowsRule ==
    (pc = "vogel_loop" /\ pc' = "vogel_loop" /\ vogel'.basis # vogel.basis)
    => LET c == vogel'.basis[Len(vogel'.basis)]
           s == heap[vogel.supply][c[1]]
           d == heap[vogel.demand][c[2]]
       IN  /\ vogel'.basis = Append(vogel.basis, c)
           /\ c = SelectionRule(vogel)
           /\ vogel'.allocation[c[1]][c[2]] = IF s <= d THEN s ELSE d

\* find_initial_bfs was called with problem p of the test suite.
GivenProblem(p) ==
    /\ GivenSupply = p.supply
    /\ GivenDemand = p.demand
    /\ GivenCosts = p.costs

\* The results of find_initial_bfs on the two problems of test_vogel.py.
VogelTestResults ==
    /\ (VogelDone /\ GivenProblem(simple_balanced_problem))
       => /\ BfsAllocation = WholeRows(<< << 0, 0, 10 >>, << 15, 5, 0 >> >>)
          /\ initial_solution[1].cost = 75 * One
          /\ BfsBasis = {<< 2, 2 >>, << 2, 1 >>, << 1, 3 >>}
    /\ (VogelDone /\ GivenProblem(standard_balanced_problem))
       => initial_solution[1].cost = 640 * One

\* C16: Vogel cell selection.  In each iteration, if the maximum row penalty
\* is >= the maximum column penalty the chosen cell is (row with the highest
\* penalty, lowest index on ties; cheapest active column in that row, lowest
\* index on ties), otherwise symmetrically (column with the highest penalty;
\* cheapest active row in it); the amount allocated is min(remaining supply,
\* remaining demand).  So supply=[10,20], demand=[15,5,10],
\* costs=[[2,3,1],[4,1,5]] yields allocation [[0,0,10],[15,5,0]], cost 75 and
\* basis {(1,1),(1,0),(0,2)}, and supply=[30,50,20], demand=[20,40,30,10],
\* costs=[[10,5,8,9],[7,9,10,4],[3,6,5,2]] yields cost 640.
VogelCellSelection == [][VogelStepFollowsRule]_vars /\ []VogelTestResults
\* find_initial_bfs has returned cost 75 for the first problem of
\* test_vogel.py, after three allocations.
VogelCellSelectionWitness ==
    /\ VogelDone
    /\ GivenProblem(simple_balanced_problem)
    /\ Len(heap["bfs.basis"]) = 3
    /\ initial_solution[1].cost = 75 * One

RECURSIVE VogelRun(_, _)
\* find_initial_bfs run from the locals v to the end of its loop without
\* interruption: the heap and the locals then, or the IndexError raised.
VogelRun(h, v) ==
    IF ~VogelContinues(v) THEN [heap |-> h, locals |-> v, raised |-> FALSE]
    ELSE IF VogelIndexError(h, v)
    THEN [heap |-> h, locals |-> v, raised |-> TRUE]
    ELSE VogelRun(VogelAllocate(h, v).heap, VogelAllocate(h, v).locals)

RECURSIVE ModiRun(_, _, _, _, _, _, _)
\* The loop of solve_from_bfs run from iteration it to its return without
\* interruption: what the caller receives.
ModiRun(allocation, basis, costs, m, n, it, cap) ==
    IF it >= cap
    THEN Returned(TLPResult("error", None, None,
             Some("Max iterations (" \o ToString(cap) \o ") reached")))
    ELSE IF m * n = 0
    THEN RaisedInModi("zero-size array to reduction operation minimum which has no identity")
    ELSE LET pot == calculate_potentials(costs, Enumerate(basis), m, n)
             e == entering_cell(costs, pot, basis, m, n)
             cycle == find_cycle(e, Enumerate(basis), m, n)
         IN  IF OptimalCondition(np_min(costs, pot, basis, m, n))
             THEN Returned(TLPResult("optimal",
                      Some(SumCells(allocation, costs, Cells(m, n))),
                      Some(allocation), None))
             ELSE IF cycle = None
             THEN Returned(TLPResult("error", None, None,
                      Some("Could not find cycle for improvement")))
             ELSE LET upd == update_solution(allocation, basis, cycle)
                  IN  ModiRun(upd.allocation, upd.basis, costs, m, n,
                              it + 1, cap)

\* What solve returns for the problem whose lists are in the heap h when the
\* call runs alone, on a PotentialMethod(max_iterations = cap).
SolveAlone(h, cap) ==
    LET balanced == is_balanced(h, CallerProblem)
        b == balance_problem(h, CallerProblem)
        p == IF balanced THEN CallerProblem ELSE BalancedProblem
        h1 == IF balanced THEN h
              ELSE Store(Store(Store(h, p.supply, b.supply),
                               p.demand, b.demand), p.costs, b.costs)
        costs == h1[p.costs]
    IN  IF IsRagged(costs) THEN RaisedInSolve("inhomogeneous shape")
        ELSE IF Len(Shape(costs)) # 2
        THEN RaisedInSolve("not enough values to unpack (expected 2, got 1)")
        ELSE LET h2 == Store(Store(h1, "vogel.supply", h1[p.supply]),
                             "vogel.demand", h1[p.demand])
                 run == VogelRun(h2, VogelLocals("vogel.supply", "vogel.demand",
                                     costs, Shape(costs)[1], Shape(costs)[2]))
                 allocation == run.locals.allocation
                 basis == {run.locals.basis[k] : k \in 1..Len(run.locals.basis)}
             IN  IF run.raised THEN RaisedInSolve("list index out of range")
                 ELSE IF Len(Shape(allocation)) # 2
                 THEN RaisedInModi("not enough values to unpack (expected 2, got 1)")
                 ELSE ModiRun(allocation, basis, costs, Shape(allocation)[1],
                              Shape(allocation)[2], 0, cap)

\* Each finished call of solve has returned what it returns when run alone.
ResultsAsAlone ==
    /\ (entry = "solve" /\ Done) => result = SolveAlone(given, max_iterations)
    /\ (parked # NoFrame /\ parked.pc = "done")
       => parked.result = SolveAlone(parked.given, max_iterations)
\* The suspended call finds its Problem and, while find_initial_bfs or
\* solve_from_bfs has not started or has finished with them, its working
\* lists as a call run alone has them: the running call has written to
\* none of them.
ParkedFrameUntouched ==
    parked # NoFrame
    => /\ \A a \in {"problem.supply", "problem.demand", "problem.costs"} :
             parked.heap[a] = parked.given[a]
       /\ parked.vogel = NoLocals
          => parked.heap["vogel.supply"] = << >>
             /\ parked.heap["vogel.demand"] = << >>
       /\ parked.modi = NoLocals => parked.heap["modi.allocation"] = << >>
       /\ (parked.pc = "done" /\ parked.result.returned[1].status = "optimal")
          => parked.result.returned[1].solution =
                Some(parked.heap["modi.allocation"])

\* C17: concurrent invocations are independent.  When two solve calls on
\* their own Problem instances are interleaved arbitrarily on one shared
\* TLPSolver (sharing its VogelsMethod and PotentialMethod objects), each call
\* returns exactly the Result it returns when run alone; no step of one call
\* reads or writes working state (allocation, basis, remaining supply and
\* demand) of the other.
ConcurrentCallsIndependent == ResultsAsAlone /\ ParkedFrameUntouched
\* Two calls on different problems have both returned, the running one
\* OPTIMAL after a pivot, the other one an ERROR.
ConcurrentCallsWitness ==
    /\ parked # NoFrame
    /\ parked.pc = "done"
    /\ parked.given # given
    /\ parked.result.returned[1].status = "error"
    /\ IsOptimal
    /\ modi.it >= 1

\* An iteration of the optimizer is about to run its optimality test.
AtOptimalityTest == InLoop /\ ~ZeroSize
\* The eligible cells: not in the basis, both potentials derived.
Eligible == {c \in NonBasic : Derived(Potentials, c)}
\* The eligible cell of smallest reduced cost, first in row-major order.
BestEligible ==
    FirstCell({c \in Eligible :
                 \A d \in Eligible : ReducedCost(modi.costs, Potentials, c)
                                      <= ReducedCost(modi.costs, Potentials, d)})

\* C18: entering-cell selection.  Basic cells and cells with an underived
\* potential u[i] or v[j] are ineligible: they are excluded from the
\* optimality test and never selected as the entering cell.  In every
\* iteration that is not optimal, the entering cell is the eligible cell of
\* smallest reduced cost, first in row-major order on ties.
EnteringCellIsBestEligible ==
    AtOptimalityTest
    => /\ OptimalCondition(MinDelta)
          <=> \A c \in Eligible :
                 ReducedCost(modi.costs, Potentials, c) * One >= -EPSILON
       /\ ~OptimalCondition(MinDelta)
          => /\ EnteringCell \in Eligible
             /\ EnteringCell = BestEligible

\* The step is a pivot of the optimizer; the cycle it goes round, without
\* the closing repetition of the entering cell.
PivotStep == pc = "modi_loop" /\ pc' = "modi_loop" /\ modi'.it = modi.it + 1
PivotCycle == SubSeq(Cycle, 1, Len(Cycle) - 1)
\* The positions of the minus-cells (odd positions of the code's 0-based
\* cycle) and of the plus-cells.
MinusAt == {k \in 1..Len(PivotCycle) : k % 2 = 0}
PlusAt == {k \in 1..Len(PivotCycle) : k % 2 = 1}
\* The allocation of cell c in the list of rows x.
At(x, c) == x[c[1]][c[2]]

\* The pivot removes one cell, the first minus-cell in cycle order that is
\* below EPSILON once theta is subtracted, leaves it at exactly 0, and adds
\* the entering cell.
LeavingRule ==
    LET before == heap[modi.allocation]
        after == heap'[modi.allocation]
        theta == Theta(before, PivotCycle)
        gone == modi.basis \ modi'.basis
    IN  /\ Cardinality(gone) = 1
        /\ \E k \in MinusAt :
              /\ gone = {PivotCycle[k]}
              /\ At(before, PivotCycle[k]) - theta < EPSILON
              /\ \A j \in MinusAt :
                    j < k => At(before, PivotCycle[j]) - theta >= EPSILON
              /\ At(after, PivotCycle[k]) = 0
        /\ modi'.basis = (modi.basis \ gone) \cup {PivotCycle[1]}
        /\ PivotCycle[1] \in modi'.basis
        /\ Cardinality(modi'.basis) = Cardinality(modi.basis)

ThetaRule(x) ==
    LET amounts == {At(x, PivotCycle[k]) : k \in MinusAt}
        positive == {a \in amounts : a > EPSILON}
    IN  IF MinOf(amounts) >= EPSILON THEN MinOf(amounts)
        ELSE IF positive # {} THEN MinOf(positive)
        ELSE EPSILON

\* The pivot adds theta to every plus-cell and subtracts it from every
\* minus-cell (the cell that leaves is then set to 0); the other cells keep
\* their amounts.
ThetaApplied ==
    LET before == heap[modi.allocation]
        after == heap'[modi.allocation]
        theta == ThetaRule(before)
        gone == modi.basis \ modi'.basis
    IN  /\ \A k \in PlusAt :
              At(after, PivotCycle[k]) = At(before, PivotCycle[k]) + theta
        /\ \A k \in MinusAt :
              IF PivotCycle[k] \in gone
              THEN /\ At(before, PivotCycle[k]) - theta < EPSILON
                   /\ At(after, PivotCycle[k]) = 0
              ELSE At(after, PivotCycle[k]) = At(before, PivotCycle[k]) - theta
        /\ \A c \in Cells(modi.m, modi.n) :
              (\A k \in 1..Len(PivotCycle) : PivotCycle[k] # c)
              => At(after, c) = At(before, c)

\* C20: theta rule.  In _update_solution, with plus-cells at even cycle
\* positions (starting at the entering cell) and minus-cells at odd
\* positions, theta is the minimum allocation over minus-cells; if that
\* minimum is below EPSILON, theta is instead the smallest allocation greater
\* than EPSILON among minus-cells, or EPSILON when no minus-cell is positive;
\* theta is added to every plus-cell and subtracted from every minus-cell,
\* and cells off the cycle are unchanged.
ThetaRuleFollowed == [][PivotStep => ThetaApplied]_vars
\* After pivots the optimizer's allocation holds an amount of exactly
\* EPSILON and an amount of at least 1: theta has been EPSILON in one pivot.
ThetaRuleWitness ==
    /\ pc = "modi_loop"
    /\ modi.it >= 1
    /\ \E c \in Cells(modi.m, modi.n) : At(heap[modi.allocation], c) = EPSILON
    /\ \E c \in Cells(modi.m, modi.n) : At(heap[modi.allocation], c) >= One

\* The optimizer has run at most max_iterations iterations: an optimality
\* test is made only in an iteration, and a pivot ends one.
IterationsBounded == InModi => modi.it <= max_iterations
\* The cycle search of the current iteration: no call of dfs has a path of
\* more than 2 * (m + n) + 1 cells, and no call goes on to the neighbours of
\* a cell that an earlier call on its path has gone on from.
CycleSearchBounded ==
    (AtOptimalityTest /\ ~OptimalCondition(MinDelta))
    => \A call \in find_cycle_calls(EnteringCell, Enumerate(modi.basis),
                                    modi.m, modi.n) :
          /\ Len(call.path) <= 2 * (modi.m + modi.n) + 1
          /\ call.expands
             => \A k \in 1..(Len(call.path) - 1) :
                   call.path[k] # call.path[Len(call.path)]

\* C21: termination.  For every problem and every initial BFS,
\* solve_from_bfs terminates after at most max_iterations optimality tests
\* and at most max_iterations pivots, and each cycle search terminates (the
\* DFS never extends a path beyond 2*(m+n)+1 cells and never expands a cell
\* twice on one path); solve therefore always returns.
Termination ==
    /\ <>(Done /\ HasResult)
    /\ [](IterationsBounded /\ CycleSearchBounded)
\* solve_from_bfs has returned after max_iterations pivots, max_iterations
\* being more than 1.
TerminationWitness ==
    /\ Done
    /\ InModi
    /\ max_iterations > 1
    /\ modi.it = max_iterations

\* d is the difference of the two smallest of the costs c[k], k in the set
\* K of at least two indices (the two are equal when the smallest cost
\* occurs twice), and the single cost when K has one index.
TwoSmallestDiffer(c, K, d) ==
    IF Cardinality(K) = 1 THEN \A k \in K : d = c[k]
    ELSE \E a \in K : \E b \in K \ {a} :
            /\ \A k \in K : c[a] <= c[k]
            /\ \A k \in K \ {a} : c[b] <= c[k]
            /\ d = c[b] - c[a]

\* A penalty function was called on its own and has returned.
RowPenaltiesDone == entry = "_calculate_row_penalties" /\ Done
ColPenaltiesDone == entry = "_calculate_col_penalties" /\ Done

\* C22: Vogel penalties.  For every set of active rows and active columns,
\* _calculate_row_penalties maps each active row to (second-smallest cost -
\* smallest cost) among the active columns of that row, or to the single
\* cost when exactly one column is active, and has no entry for a row when no
\* column is active; _calculate_col_penalties is the symmetric function over
\* active rows.
VogelPenalties ==
    /\ RowPenaltiesDone
       => /\ DOMAIN Res = IF given.active_cols = {} THEN {}
                          ELSE given.active_rows
          /\ \A i \in DOMAIN Res :
                TwoSmallestDiffer([j \in given.active_cols |-> given.costs[i][j]],
                                  given.active_cols, Res[i])
    /\ ColPenaltiesDone
       => /\ DOMAIN Res = IF given.active_rows = {} THEN {}
                          ELSE given.active_cols
          /\ \A j \in DOMAIN Res :
                TwoSmallestDiffer([i \in given.active_rows |-> given.costs[i][j]],
                                  given.active_rows, Res[j])
    /\ (RowPenaltiesDone /\ given.costs = penalties_test_costs
        /\ given.active_rows = {1, 2})
       => /\ given.active_cols = {1, 2, 3} => Res = (1 :> 1 @@ 2 :> 3)
          /\ given.active_cols = {1} => Res = (1 :> 2 @@ 2 :> 4)
    /\ (ColPenaltiesDone /\ given.costs = penalties_test_costs
        /\ given.active_rows = {1, 2} /\ given.active_cols = {1, 2, 3})
       => Res = (1 :> 2 @@ 2 :> 2 @@ 3 :> 4)
\* The row penalties of three active columns with three different costs
\* have been returned: the penalty is below the largest cost minus the
\* smallest.
VogelPenaltiesWitness ==
    /\ RowPenaltiesDone
    /\ Cardinality(given.active_cols) = 3
    /\ \E i \in DOMAIN Res :
          /\ Cardinality({given.costs[i][j] : j \in given.active_cols}) = 3
          /\ Res[i] > 0
          /\ Res[i] < MaxOf({given.costs[i][j] : j \in given.active_cols})
                      - MinOf({given.costs[i][j] : j \in given.active_cols})

\* C23: TLPResult.is_optimal is true exactly when the result's status is
\* OPTIMAL, and false for a Result whose status is ERROR or INFEASIBLE.
IsOptimalMatchesStatus ==
    (Done /\ HasResult)
    => /\ EnumBool(is_optimal(Res)) <=> Res.status = "optimal"
       /\ Res.status \in {"error", "infeasible"} => ~EnumBool(is_optimal(Res))

\* The BFS solve_from_bfs starts from: its basis, and its allocation is 0 on
\* every cell outside the basis.
StartZeroOffBasis ==
    \A i \in 1..Len(heap["bfs.allocation"]) :
        \A j \in 1..Len(heap["bfs.allocation"][i]) :
            << i, j >> \notin BfsBasis => heap["bfs.allocation"][i][j] = 0

\* C24: complementary zero invariant.  If the initial BFS has allocation 0 on
\* every cell outside its basis, then in every iteration of solve_from_bfs
\* (after any sequence of pivots, degenerate or not) every cell outside the
\* current basis has allocation exactly 0, so the returned solution is
\* non-zero only on cells of the final basis.
ZeroOffBasis ==
    (InModi /\ StartZeroOffBasis)
    => /\ \A c \in NonBasic : At(heap[modi.allocation], c) = 0
       /\ IsOptimal
          => \A c \in Cells(modi.m, modi.n) :
                At(Res.solution[1], c) # 0 => c \in modi.basis
\* OPTIMAL has been returned after a degenerate pivot: a cell of the initial
\* basis has left the basis, and theta = EPSILON has been moved along the
\* cycle.
ZeroOffBasisWitness ==
    /\ IsOptimal
    /\ InModi
    /\ StartZeroOffBasis
    /\ modi.it >= 1
    /\ BfsBasis \ modi.basis # {}
    /\ \E c \in modi.basis : At(Res.solution[1], c) % One = EPSILON

\* The rows and columns of an m x n problem, as the nodes of the graph whose
\* edges are the cells of a basis; the number of connected components of
\* that graph, a row or column without a basic cell being one on its own.
Nodes(m, n) == {<< "r", i >> : i \in 1..m} \cup {<< "c", j >> : j \in 1..n}
Components(B, m, n) == Cardinality({Linked(B, {node}) : node \in Nodes(m, n)})
\* B is a spanning tree of the m rows and n columns.
SpanningTree(B, m, n) ==
    /\ Acyclic(B)
    /\ Cardinality(B) = m + n - 1
    /\ Components(B, m, n) = 1
ShapeKept ==
    Acyclic(modi.basis)
    => /\ Acyclic(modi'.basis)
       /\ Components(modi'.basis, modi.m, modi.n)
            = Components(modi.basis, modi.m, modi.n)
       /\ SpanningTree(modi.basis, modi.m, modi.n)
          => SpanningTree(modi'.basis, modi.m, modi.n)

\* C25: basis shape is preserved.  If the basis, viewed as a bipartite graph
\* on rows and columns, is acyclic before a pivot, then it is acyclic after
\* the pivot and has the same number of connected components; in particular
\* a spanning-tree basis of m+n-1 cells stays a spanning tree after any
\* sequence of pivots.
BasisShapePreserved == [][PivotStep => ShapeKept]_vars
\* Two pivots or more have been made from a spanning tree of m+n-1 cells, and
\* the basis, now another set of cells, is a spanning tree.
BasisShapeWitness ==
    /\ pc = "modi_loop"
    /\ modi.it >= 2
    /\ SpanningTree(BfsBasis, modi.m, modi.n)
    /\ SpanningTree(modi.basis, modi.m, modi.n)
    /\ modi.basis # BfsBasis

\* float(np.sum(allocation * costs)) of the list of rows x under the
\* optimizer's costs, and x without an amount below 0.
TotalCost(x) == SumCells(x, modi.costs, Cells(modi.m, modi.n))
NonNegative(x) == \A c \in Cells(modi.m, modi.n) : At(x, c) >= 0
\* The smallest amount on a minus-cell of the cycle in the allocation x.
MinMinus(x) == MinOf({At(x, PivotCycle[k]) : k \in MinusAt})
\* The pivot moves the total cost by theta times the reduced cost of the
\* entering cell, and never up; down when a positive amount is moved.
ObjectiveStep ==
    LET before == heap[modi.allocation]
        after == heap'[modi.allocation]
        theta == Theta(before, PivotCycle)
        delta == ReducedCost(modi.costs, Potentials, EnteringCell)
    IN  (SpanningTree(modi.basis, modi.m, modi.n) /\ NonNegative(before))
        => /\ TotalCost(after) = TotalCost(before) + theta * delta
           /\ TotalCost(after) <= TotalCost(before)
           /\ MinMinus(before) > 0 => TotalCost(after) < TotalCost(before)

\* C26: the objective never increases.  For a spanning-tree basis with
\* non-negative allocation, each pivot changes the total cost
\* sum(allocation*costs) by exactly theta times the entering cell's reduced
\* cost, so the total cost after a pivot is <= the total cost before it, and
\* strictly smaller when the minimum minus-cell allocation is positive.
ObjectiveNeverIncreases == [][PivotStep => ObjectiveStep]_vars

\* The while condition of find_initial_bfs holds: the step from here is an
\* iteration of its loop.
VogelPass ==
    /\ pc = "vogel_loop"
    /\ vogel.active_rows # {}
    /\ vogel.active_cols # {}
\* The cells of the list of cells b.
CellsOf(b) == {b[k] : k \in 1..Len(b)}
\* The iteration appends one cell, which was not in the basis, and takes a
\* row or a column out of the active sets.
VogelProgress ==
    /\ pc' = "vogel_loop"
    /\ Len(vogel'.basis) = Len(vogel.basis) + 1
    /\ SubSeq(vogel'.basis, 1, Len(vogel.basis)) = vogel.basis
    /\ vogel'.basis[Len(vogel'.basis)] \notin CellsOf(vogel.basis)
    /\ vogel'.active_rows \subseteq vogel.active_rows
    /\ vogel'.active_cols \subseteq vogel.active_cols
    /\ \/ vogel'.active_rows # vogel.active_rows
       \/ vogel'.active_cols # vogel.active_cols
\* One cell is recorded in an iteration, so the basis counts the iterations:
\* at most m+n-1 of them, no cell twice, and no cycle in the basis.
VogelBasisBound ==
    (entry = "find_initial_bfs" /\ pc \in {"vogel_loop", "check_bfs"})
    => /\ Len(vogel.basis) <= vogel.m + vogel.n - 1
       /\ Cardinality(CellsOf(vogel.basis)) = Len(vogel.basis)
       /\ Acyclic(CellsOf(vogel.basis))
       /\ VogelDone => heap["bfs.basis"] = vogel.basis

\* C27: Vogel loop progress and basis bound.  Every iteration of
\* find_initial_bfs records exactly one new basis cell (even when the amount
\* is 0) and deactivates at least one row or column, no cell is chosen
\* twice, the loop ends after at most m+n-1 iterations, and the returned
\* basis has at most m+n-1 cells and is acyclic as a bipartite graph.
VogelLoopProgress == [][VogelPass => VogelProgress]_vars /\ []VogelBasisBound

\* C28: the optimality test runs only before a pivot.  solve_from_bfs returns
\* OPTIMAL only when the optimality test passes after fewer than
\* max_iterations pivots; an initial BFS that becomes optimal after exactly
\* max_iterations pivots yields ERROR "Max iterations" although the last
\* allocation computed is optimal, and with max_iterations = 0 even an
\* already-optimal BFS yields ERROR.
OptimalityTestBeforePivot ==
    (Done /\ HasResult /\ InModi)
    => /\ Res.status = "optimal"
          => modi.it < max_iterations /\ OptimalCondition(MinDelta)
       /\ modi.it >= max_iterations
          => /\ Res.status = "error"
             /\ Res.error_message =
                  Some("Max iterations (" \o ToString(max_iterations)
                         \o ") reached")
\* The basis passes the optimality test after max_iterations pivots, one or
\* more, and the call has returned ERROR.
OptimalityTestWitness ==
    /\ Done
    /\ HasResult
    /\ InModi
    /\ ~ZeroSize
    /\ max_iterations >= 1
    /\ modi.it = max_iterations
    /\ OptimalCondition(MinDelta)
    /\ Res.status = "error"

\* The step is one of solve_from_bfs, and it leaves the BFSolution it was
\* given as it is: the allocation list, the basis list and the cost.
ModiStep == pc \in {"solve_from_bfs", "modi_loop"}
BfsKept ==
    /\ initial_solution' = initial_solution
    /\ heap'["bfs.allocation"] = heap["bfs.allocation"]
    /\ heap'["bfs.basis"] = heap["bfs.basis"]
\* In a call of solve_from_bfs the caller's lists are as they were given.
BfsAsGiven ==
    entry = "solve_from_bfs"
    => /\ heap["bfs.allocation"] = given["bfs.allocation"]
       /\ heap["bfs.basis"] = given["bfs.basis"]

\* C29: solve_from_bfs does not modify the caller's BFSolution.  The
\* allocation, the basis and the cost of the initial_solution passed in are
\* the same after the call as before it, whatever the optimizer does to its
\* own working allocation and basis.
BfsNotModified == [][ModiStep => BfsKept]_vars /\ []BfsAsGiven
\* solve_from_bfs has returned after a pivot or more: its working allocation
\* and basis are no longer those of the BFSolution it was given.
BfsNotModifiedWitness ==
    /\ entry = "solve_from_bfs"
    /\ Done
    /\ HasResult
    /\ InModi
    /\ modi.it >= 1
    /\ heap[modi.allocation] # given["bfs.allocation"]
    /\ modi.basis # CellsOf(given["bfs.basis"])

\* In the iteration that starts here, _calculate_potentials returns the same
\* u and v for every order in which `for i, j in basis` can enumerate the
\* basis, and when the test of line 42 fails _find_cycle returns the same
\* cycle for every order in which its adjacency lists can be filled.  The
\* rest of the iteration (lines 32-62) reads u, v, the cycle and the
\* allocation and never enumerates the basis.
SameInEveryOrder ==
    /\ \A cells \in ScanOrders(modi.basis) :
          calculate_potentials(modi.costs, cells, modi.m, modi.n) = Potentials
    /\ ~OptimalCondition(MinDelta)
       => \A cells \in ScanOrders(modi.basis) :
             find_cycle(EnteringCell, cells, modi.m, modi.n) = Cycle

\* C30: order independence.  The basis is held as an unordered set, and for
\* an acyclic basis the outcome does not depend on the order in which its
\* cells are enumerated: two runs of solve_from_bfs on the same problem and
\* BFS that differ only in the enumeration order of basis cells (in
\* _calculate_potentials and in building the row/column adjacency lists of
\* _find_cycle) compute the same potentials, the same cycle, and return the
\* same Result.
OrderIndependence ==
    (InLoop /\ ~ZeroSize /\ Acyclic(modi.basis)) => SameInEveryOrder
\* A second iteration or a later one starts from an acyclic basis of three
\* cells or more, the test of line 42 fails and there is a cycle.
OrderIndependenceWitness ==
    /\ InLoop
    /\ ~ZeroSize
    /\ modi.it >= 1
    /\ Acyclic(modi.basis)
    /\ Cardinality(modi.basis) >= 3
    /\ ~OptimalCondition(MinDelta)
    /\ Cycle # None

=============================================================================
